---- MODULE Spec2Model ----
(***************************************************************************)
(* Task orchestration engine of my-app: the task lifecycle state machine,  *)
(* the driver (_process_task / _resume_execution), the suspend/resume      *)
(* protocol, the retry engine and its circuit breaker.                     *)
(*                                                                         *)
(* Python values are represented as follows.                               *)
(*   None / absent dict key : the empty tuple << >>                        *)
(*   Optional[x]            : << >> or <<x>>                               *)
(*   str(exception)         : the set of classifier keywords that occur in *)
(*                            the lower-cased message                      *)
(*   uuid4()                : the next unused natural number               *)
(***************************************************************************)
EXTENDS Integers, Sequences, FiniteSets, TLC

(***************************************************************************)
(* Bounds of the model.                                                    *)
(***************************************************************************)
\* a tool is made to fail only while the breaker counts fewer failures
MaxFailures == 6
\* the planner creates at most this many steps for a task
MaxSteps == 5
\* the interpreter asks for a clarification only this many times per task
MaxClarifications == 1
\* max_retries of a step and attempt numbers go up to this
MaxAttempt == 3

(***************************************************************************)
(* Program constants.                                                      *)
(***************************************************************************)
failure_threshold == 5
recovery_timeout == 300
MaxReplans == 3
MinGoalLength == 10

None == << >>

(***************************************************************************)
(* models.py                                                               *)
(***************************************************************************)
TaskStatus ==
  {"PENDING", "ANALYZING", "PLANNING", "EXECUTING", "WAITING", "RETRYING",
   "INTERRUPTED", "VALIDATING", "COMPLETED", "FAILED"}

StepStatus == {"PENDING", "IN_PROGRESS", "COMPLETED", "FAILED", "SKIPPED"}

STATE_TRANSITIONS ==
  [s \in {"PENDING", "ANALYZING", "PLANNING", "EXECUTING", "WAITING",
          "RETRYING", "INTERRUPTED", "VALIDATING"} |->
     CASE s = "PENDING"     -> {"ANALYZING"}
       [] s = "ANALYZING"   -> {"PLANNING", "INTERRUPTED", "FAILED"}
       [] s = "PLANNING"    -> {"EXECUTING", "INTERRUPTED", "FAILED"}
       [] s = "EXECUTING"   -> {"WAITING", "RETRYING", "VALIDATING",
                                "INTERRUPTED", "FAILED"}
       [] s = "WAITING"     -> {"EXECUTING", "INTERRUPTED"}
       [] s = "RETRYING"    -> {"EXECUTING", "FAILED"}
       [] s = "INTERRUPTED" -> {"EXECUTING", "FAILED"}
       [] s = "VALIDATING"  -> {"COMPLETED", "EXECUTING", "FAILED"}]

\* ExecutionStep(...) with the defaults of the pydantic model (without the
\* description, the parameters, the error text and the timestamps)
ExecutionStep(id, action_type, dependencies, max_retries) ==
  [id |-> id, action_type |-> action_type, dependencies |-> dependencies,
   status |-> "PENDING", result |-> None,
   retry_count |-> 0, max_retries |-> max_retries]

\* context of a task: the keys the engine itself reads or writes, and the
\* set of action types whose context_updates have been merged
EmptyContext ==
  [goal |-> None, user_response |-> None, user_payment_method |-> None,
   payment_approved |-> FALSE, approval_response |-> None,
   approval_received |-> FALSE, clarification_answer |-> None,
   failure_reason |-> None, replan_count |-> 0, final_result |-> None,
   validation_result |-> None, tool_updates |-> {}]

\* TaskState(...) with the defaults of the pydantic model
TaskState(context) ==
  [status |-> "PENDING", outcome |-> None, plan |-> << >>,
   current_step_index |-> 0, context |-> context, history |-> << >>,
   interrupt_reason |-> None, interrupt_data |-> None]

\* HumanInterruptionRequired(reason, data)
HumanInterruptionRequired(reason, data) == [reason |-> reason, data |-> data]

(***************************************************************************)
(* External collaborators: planner templates, tools, user responses.       *)
(***************************************************************************)
ActionTypes ==
  {"request_payment_approval", "process_payment", "send_approval_request",
   "wait_for_approval", "request_user_help"}

Domains == {"travel", "business", "other"}

\* PlannerEngine.create_plan: the plan of the outcome's domain, its steps
\* chained by dependencies, with fresh ids starting at `first`.  The travel
\* template is cut down to its payment approval and payment steps, the
\* business template to an approval request and the wait for the approval;
\* "other" stands for an LLM plan (_create_plan_with_llm): the default
\* max_retries, and the dependencies as the LLM wrote them, here a label
\* (0) that is the id of no step, the ids being generated afterwards.
CreatePlan(domain, first) ==
  CASE domain = "travel" ->
         << ExecutionStep(first, "request_payment_approval", {}, 1),
            ExecutionStep(first + 1, "process_payment", {first}, 2) >>
    [] domain = "business" ->
         << ExecutionStep(first, "send_approval_request", {}, 3),
            ExecutionStep(first + 1, "wait_for_approval", {first}, 1) >>
    [] OTHER ->
         << ExecutionStep(first, "request_payment_approval", {0}, 3) >>

\* a replan whose replacement step calls the tool of the failed step again
ReplanWithSameAction(plan, failure_point, new_id) ==
  [i \in 1..Len(plan) |->
     IF i = failure_point + 1
     THEN ExecutionStep(new_id, plan[i].action_type, plan[i].dependencies, 2)
     ELSE IF plan[failure_point + 1].id \in plan[i].dependencies
          THEN [plan[i] EXCEPT !.dependencies =
                  (@ \ {plan[failure_point + 1].id}) \cup {new_id}]
          ELSE plan[i]]

\* a replan that leaves the dependencies of the later steps as they were
ReplanKeepingDependencies(plan, failure_point, new_id) ==
  LET done      == {i \in 1..failure_point : plan[i].status = "COMPLETED"}
      last_done == IF done = {} THEN {}
                   ELSE {plan[CHOOSE i \in done : \A j \in done : j <= i].id}
  IN  SubSeq(plan, 1, failure_point)
        \o <<ExecutionStep(new_id, "request_user_help", last_done, 2)>>
        \o SubSeq(plan, failure_point + 2, Len(plan))

\* PlannerEngine.replan: the failed step is replaced by a request_user_help
\* step and later dependencies on the failed step are re-pointed to it
Replan(plan, failure_point, new_id) ==
  LET completed_steps == SubSeq(plan, 1, failure_point)
      failed_step     == plan[failure_point + 1]
      done            == {i \in 1..failure_point : plan[i].status = "COMPLETED"}
      last_done       == IF done = {} THEN {}
                         ELSE {plan[CHOOSE i \in done : \A j \in done : j <= i].id}
      alternative     == ExecutionStep(new_id, "request_user_help", last_done, 2)
      rewire(st)      == IF failed_step.id \in st.dependencies
                         THEN [st EXCEPT !.dependencies =
                                 (@ \ {failed_step.id}) \cup {new_id}]
                         ELSE st
      rest            == [i \in 1..(Len(plan) - failure_point - 1) |->
                            rewire(plan[failure_point + 1 + i])]
  IN  completed_steps \o <<alternative>> \o rest

\* classifier keywords of RetryEngine._select_strategy, by priority row
NetworkWords  == {"timeout", "connection", "network", "503", "502", "504"}
RateWords     == {"rate limit", "429", "too many requests"}
AuthWords     == {"auth", "unauthorized", "401", "403", "forbidden"}
NotFoundWords == {"not found", "404", "unavailable", "no longer available"}
BusinessWords == {"insufficient funds", "invalid", "rejected", "declined"}
TemporaryWords == {"temporarily", "unavailable", "maintenance", "busy"}

\* a classifier that escalates an authentication failure one attempt late
SelectStrategyAuthEscalatesLate(error, attempt) ==
  IF error \cap NetworkWords # {} THEN "EXPONENTIAL"
  ELSE IF error \cap RateWords # {} THEN "EXPONENTIAL"
  ELSE IF error \cap AuthWords # {}
       THEN (IF attempt < 3 THEN "IMMEDIATE" ELSE "HUMAN_ESCALATE")
  ELSE IF error \cap NotFoundWords # {} THEN "ALTERNATIVE"
  ELSE IF error \cap BusinessWords # {} THEN "HUMAN_ESCALATE"
  ELSE IF error \cap TemporaryWords # {} THEN "EXPONENTIAL"
  ELSE "EXPONENTIAL"

\* a classifier that tries the temporary-unavailability row before the
\* not-found row
SelectStrategyTemporaryFirst(error, attempt) ==
  IF error \cap NetworkWords # {} THEN "EXPONENTIAL"
  ELSE IF error \cap RateWords # {} THEN "EXPONENTIAL"
  ELSE IF error \cap AuthWords # {}
       THEN (IF attempt < 2 THEN "IMMEDIATE" ELSE "HUMAN_ESCALATE")
  ELSE IF error \cap TemporaryWords # {} THEN "EXPONENTIAL"
  ELSE IF error \cap NotFoundWords # {} THEN "ALTERNATIVE"
  ELSE IF error \cap BusinessWords # {} THEN "HUMAN_ESCALATE"
  ELSE "EXPONENTIAL"

\* RetryEngine._select_strategy, on the set of keywords of the message
SelectStrategy(error, attempt) ==
  IF error \cap NetworkWords # {} THEN "EXPONENTIAL"
  ELSE IF error \cap RateWords # {} THEN "EXPONENTIAL"
  ELSE IF error \cap AuthWords # {}
       THEN (IF attempt < 2 THEN "IMMEDIATE" ELSE "HUMAN_ESCALATE")
  ELSE IF error \cap NotFoundWords # {} THEN "ALTERNATIVE"
  ELSE IF error \cap BusinessWords # {} THEN "HUMAN_ESCALATE"
  ELSE IF error \cap TemporaryWords # {} THEN "EXPONENTIAL"
  ELSE "EXPONENTIAL"

\* failure messages a tool call is made to raise in the driver model
ErrorMessages == {{"timeout"}, {"auth"}, {"not found"}, {"declined"}}

\* what a tool call does: return, raise a failure, raise an interruption
Outcome(kind, msg, sig) == [kind |-> kind, msg |-> msg, sig |-> sig]
NoSignal == HumanInterruptionRequired(None, None)

\* tools.py: the three tools that always raise HumanInterruptionRequired;
\* every other tool returns or raises a failure
ToolOutcomes(action_type, failures) ==
  CASE action_type = "request_payment_approval" ->
         {Outcome("interrupt", {},
            HumanInterruptionRequired(<<"payment_required">>, <<"amount", "payment_methods">>))}
    [] action_type = "wait_for_approval" ->
         {Outcome("interrupt", {},
            HumanInterruptionRequired(<<"approval_needed">>, <<"approver", "timeout_hours">>))}
    [] action_type = "request_user_help" ->
         {Outcome("interrupt", {},
            HumanInterruptionRequired(<<"clarification_needed">>, <<"question", "error", "step">>))}
    [] OTHER ->
         {Outcome("ok", {}, NoSignal)} \cup
         {Outcome("raise", m, NoSignal) : m \in failures}

\* user_response dicts of the resume endpoint: .get("approved") by truth
\* value, .get("payment_method") and .get("answer") None when absent
Responses ==
  { [approved |-> TRUE,  payment_method |-> <<"card_ending_4242">>, answer |-> None],
    [approved |-> FALSE, payment_method |-> None, answer |-> <<"tomorrow">>] }

\* goal texts submitted to create_task, as sequences of characters
Goals ==
  { << >>, <<" ", " ">>, <<" ", "g", "o", " ">>,
    <<" ", "b", "o", "o", "k", " ", "t", "o", "k", "y", "o", " ">> }

\* a trimming of the leading blanks only (str.lstrip)
RECURSIVE StripLeadingOnly(_)
StripLeadingOnly(s) ==
  IF s = << >> THEN s
  ELSE IF Head(s) = " " THEN StripLeadingOnly(Tail(s))
  ELSE s

\* str.strip()
RECURSIVE Strip(_)
Strip(s) ==
  IF s = << >> THEN s
  ELSE IF Head(s) = " " THEN Strip(Tail(s))
  ELSE IF s[Len(s)] = " " THEN Strip(SubSeq(s, 1, Len(s) - 1))
  ELSE s

(***************************************************************************)
(* State.                                                                  *)
(***************************************************************************)
VARIABLES
  task,           \* the TaskState object held by the state manager's cache
  exists,         \* the task has been created
  saved,          \* the task's persisted record (the last save_state)
  pc,             \* position of the task's driver run
  entry,          \* the coroutine of the run: _process_task or _resume_execution
  retry,          \* execute_with_retry: locals of the call in progress or just ended
  breaker,        \* the retry engine's CircuitBreaker
  next_id,        \* the next unused step id
  via,            \* how the last step assigned task.status, if it did
  signal,         \* the HumanInterruptionRequired raised in the last step, if any
  api_result,     \* what the create_task / resume call of the last step returned
  resume_index,   \* current_step_index when the last resume was accepted
  probe,          \* a direct call of one operation: its arguments and result
  sched,          \* ExecutorEngine.execute_plan: the locals of a call of its own
  failure         \* the exception that ended the run in the last step, if any,
                  \* and whether that step called _notify_failure

vars == <<task, exists, saved, pc, entry, retry, breaker, next_id, via,
          signal, api_result, resume_index, probe, sched, failure>>

\* no exception ended the run and no failure was notified
NoFailure == [raised |-> "none", notified |-> FALSE]

\* no call of execute_plan; calls: per step of the plan, how many times its
\* handler has been called
NoSched ==
  [pc |-> "none", plan |-> << >>, context |-> {}, completed_steps |-> {},
   ready_steps |-> << >>, results |-> << >>, calls |-> << >>, ret |-> None]

NoRetry ==
  [index |-> 0, action_type |-> "", max_retries |-> 0, attempt |-> 0,
   calls |-> 0, delays |-> 0, waits |-> 0, failures_before |-> 0,
   outcome |-> "none"]

(***************************************************************************)
(* retry_engine.py: CircuitBreaker.  last_failure_time is kept as the time *)
(* elapsed since it, saturated just above recovery_timeout.                *)
(***************************************************************************)
NewBreaker ==
  [failures |-> [s \in ActionTypes |-> 0],
   state |-> [s \in ActionTypes |-> "absent"],
   since_failure |-> [s \in ActionTypes |-> recovery_timeout + 1]]

\* CircuitBreaker.is_open: the answer and the breaker after the call
IsOpen(b, service) ==
  IF b.state[service] = "absent" THEN [open |-> FALSE, breaker |-> b]
  ELSE IF b.state[service] = "open"
       THEN IF b.since_failure[service] > recovery_timeout
            THEN [open |-> FALSE,
                  breaker |-> [b EXCEPT !.state[service] = "half-open"]]
            ELSE [open |-> TRUE, breaker |-> b]
  ELSE [open |-> FALSE, breaker |-> b]

\* a record_success that resets the failure count
RecordSuccessResetting(b, service) ==
  [b EXCEPT !.failures[service] = 0,
            !.state[service] = IF @ = "half-open" THEN "closed" ELSE @]

\* CircuitBreaker.record_success
RecordSuccess(b, service) ==
  LET n == IF b.failures[service] - 1 > 0 THEN b.failures[service] - 1 ELSE 0
  IN  [b EXCEPT !.failures[service] = n,
                !.state[service] = IF @ = "half-open" THEN "closed" ELSE @]

\* a record_failure that opens the circuit one failure late
RecordFailureOpensLate(b, service) ==
  LET n == b.failures[service] + 1
  IN  [b EXCEPT !.failures[service] = n,
                !.since_failure[service] = 0,
                !.state[service] = IF n > failure_threshold THEN "open" ELSE @]

\* CircuitBreaker.record_failure
RecordFailure(b, service) ==
  LET n == b.failures[service] + 1
  IN  [b EXCEPT !.failures[service] = n,
                !.since_failure[service] = 0,
                !.state[service] = IF n >= failure_threshold THEN "open" ELSE @]

\* d time units pass: every age grows, saturating above recovery_timeout
Elapse(b, d) ==
  [b EXCEPT !.since_failure =
     [s \in ActionTypes |->
        IF b.since_failure[s] + d > recovery_timeout
        THEN recovery_timeout + 1 ELSE b.since_failure[s] + d]]

(***************************************************************************)
(* orchestrator.py: helpers of the driver.                                 *)
(***************************************************************************)
Allowed(status) ==
  IF status \in DOMAIN STATE_TRANSITIONS THEN STATE_TRANSITIONS[status] ELSE {}

\* a _transition_state that assigns without consulting the table
TransitionStateUnchecked(t, new_state) ==
  [ok |-> TRUE, task |-> [t EXCEPT !.status = new_state]]

\* AgentOrchestrator._transition_state: ok = FALSE is StateTransitionError
TransitionState(t, new_state) ==
  IF new_state \notin Allowed(t.status)
  THEN [ok |-> FALSE, task |-> t]
  ELSE [ok |-> TRUE, task |-> [t EXCEPT !.status = new_state]]

\* a _handle_interruption that records the reason but drops the data
HandleInterruptionWithoutData(t, e) ==
  LET tr == TransitionState(t, "INTERRUPTED")
      t1 == IF tr.ok THEN tr.task ELSE [t EXCEPT !.status = "INTERRUPTED"]
  IN  [task |-> [t1 EXCEPT !.interrupt_reason = e.reason],
       via |-> IF tr.ok THEN "transition" ELSE "direct"]

\* AgentOrchestrator._handle_interruption: the task and the kind of assignment
HandleInterruption(t, e) ==
  LET tr == TransitionState(t, "INTERRUPTED")
      t1 == IF tr.ok THEN tr.task ELSE [t EXCEPT !.status = "INTERRUPTED"]
  IN  [task |-> [t1 EXCEPT !.interrupt_reason = e.reason,
                           !.interrupt_data = e.data],
       via |-> IF tr.ok THEN "transition" ELSE "direct"]

\* AgentOrchestrator._build_result_summary
BuildResultSummary(t) ==
  [total_steps |-> Len(t.plan),
   completed_steps |-> Cardinality({i \in 1..Len(t.plan) :
                                      t.plan[i].status = "COMPLETED"})]

\* AgentOrchestrator._notify_completion
NotifyCompletion(t, validation) ==
  [t EXCEPT !.context.final_result = <<BuildResultSummary(t)>>,
            !.context.validation_result = <<validation>>]

\* an exception handler that reports the failure and leaves the status alone
HandleFailureOnlyReporting(t) == [task |-> t, via |-> "none"]

\* except Exception in _process_task (transition to FAILED, forced when the
\* table rejects it) and in _resume_execution (direct assignment)
HandleFailure(t) ==
  IF entry = "process"
  THEN LET tr == TransitionState(t, "FAILED")
       IN  IF tr.ok THEN [task |-> tr.task, via |-> "transition"]
           ELSE [task |-> [t EXCEPT !.status = "FAILED"], via |-> "direct"]
  ELSE [task |-> [t EXCEPT !.status = "FAILED"], via |-> "direct"]

\* StateTransitionError reaching the top of the run: _process_task only
\* reports it, _resume_execution treats it as any other exception
HandleTransitionError(t) ==
  IF entry = "process" THEN [task |-> t, via |-> "none"] ELSE HandleFailure(t)

\* a handling of the interruption after which the run goes on executing
EndInterruptedKeepsRunning(t, e) ==
  LET h == HandleInterruption(t, e)
  IN  /\ task' = h.task
      /\ saved' = h.task
      /\ via' = h.via
      /\ pc' = "execute"
      /\ failure' = NoFailure

\* the run ends on a HumanInterruptionRequired
EndInterrupted(t, e) ==
  LET h == HandleInterruption(t, e)
  IN  /\ task' = h.task
      /\ saved' = h.task
      /\ via' = h.via
      /\ pc' = "idle"
      /\ failure' = NoFailure

\* the run ends on another exception
EndFailed(t) ==
  LET h == HandleFailure(t)
  IN  /\ task' = h.task
      /\ saved' = h.task
      /\ via' = h.via
      /\ pc' = "idle"
      /\ failure' = [raised |-> "Exception", notified |-> TRUE]

\* the run ends on a StateTransitionError
EndTransitionError(t) ==
  LET h == HandleTransitionError(t)
  IN  /\ task' = h.task
      /\ saved' = h.task
      /\ via' = h.via
      /\ pc' = "idle"
      /\ failure' = [raised |-> "StateTransitionError", notified |-> TRUE]

\* the run returns normally: only _process_task saves (finally)
EndReturned(t, how) ==
  /\ task' = t
  /\ saved' = IF entry = "process" THEN t ELSE saved
  /\ via' = how
  /\ pc' = "idle"
  /\ failure' = NoFailure

\* a return after _notify_failure that sends the run back to the plan
EndReturnedNotifiedKeepsExecuting(t, how) ==
  /\ task' = t
  /\ saved' = IF entry = "process" THEN t ELSE saved
  /\ via' = how
  /\ pc' = "execute"
  /\ failure' = [raised |-> "none", notified |-> TRUE]

\* the run returns normally after a call of _notify_failure
EndReturnedNotified(t, how) ==
  /\ task' = t
  /\ saved' = IF entry = "process" THEN t ELSE saved
  /\ via' = how
  /\ pc' = "idle"
  /\ failure' = [raised |-> "none", notified |-> TRUE]

\* the run goes on at position p; sv is the record of its last save_state
Continue(t, sv, how, p) ==
  /\ task' = t
  /\ saved' = sv
  /\ via' = how
  /\ pc' = p
  /\ failure' = NoFailure

(***************************************************************************)
(* Init and the operations.                                                *)
(***************************************************************************)
Init ==
  /\ task = TaskState(EmptyContext)
  /\ exists = FALSE
  /\ saved = TaskState(EmptyContext)
  /\ pc = "idle"
  /\ entry = "process"
  /\ retry = NoRetry
  /\ breaker = NewBreaker
  /\ next_id = 1
  /\ via = "none"
  /\ signal = None
  /\ api_result = "none"
  /\ resume_index = 0
  /\ probe = None
  /\ sched = NoSched
  /\ failure = NoFailure

\* AgentOrchestrator.create_task
CreateTask(goal) ==
  /\ ~exists
  /\ IF Strip(goal) = << >> \/ Len(Strip(goal)) < MinGoalLength
     THEN /\ api_result' = "ValueError"
          /\ UNCHANGED <<task, exists, saved, pc, entry>>
     ELSE LET t == TaskState([EmptyContext EXCEPT !.goal = <<Strip(goal)>>])
          IN  /\ task' = t
              /\ saved' = t
              /\ exists' = TRUE
              /\ pc' = "process"
              /\ entry' = "process"
              /\ api_result' = "task_id"
  /\ probe' = <<[op |-> "create_task", goal |-> goal]>>
  /\ via' = "none"
  /\ signal' = None
  /\ failure' = NoFailure
  /\ UNCHANGED <<retry, breaker, next_id, resume_index, sched>>

\* _process_task up to the interpreter call: PENDING -> ANALYZING
ProcessTask ==
  /\ pc = "process"
  /\ LET tr == TransitionState(task, "ANALYZING")
     IN  IF tr.ok THEN Continue(tr.task, saved, "transition", "interpret")
         ELSE EndTransitionError(task)
  /\ signal' = None
  /\ api_result' = "none"
  /\ UNCHANGED <<exists, entry, retry, breaker, next_id, resume_index, probe, sched>>

\* OutcomeInterpreter.interpret: raises, or returns an outcome of some domain
\* that may ask for a clarification
InterpretResults(t) ==
  {[raises |-> TRUE, domain |-> "other", needs_clarification |-> FALSE]} \cup
  {[raises |-> FALSE, domain |-> d, needs_clarification |-> c] :
     d \in Domains,
     c \in IF Len(t.context.goal) <= MaxClarifications THEN BOOLEAN ELSE {FALSE}}

\* a request for clarification that does not keep the question
RequestClarificationWithoutQuestion(t) ==
  [t EXCEPT !.status = "INTERRUPTED",
            !.interrupt_reason = <<"clarification_needed">>]

\* AgentOrchestrator._request_clarification
RequestClarification(t) ==
  [t EXCEPT !.status = "INTERRUPTED",
            !.interrupt_reason = <<"clarification_needed">>,
            !.interrupt_data = <<"question">>]

\* _process_task: ANALYZING, then ANALYZING -> PLANNING
Interpret ==
  /\ pc = "interpret"
  /\ \E r \in InterpretResults(task) :
       IF r.raises THEN EndFailed(task)
       ELSE LET t1 == [task EXCEPT !.outcome =
                         <<[domain |-> r.domain,
                            needs_clarification |-> r.needs_clarification]>>]
                tr == TransitionState(t1, "PLANNING")
            IN  IF r.needs_clarification
                THEN EndReturned(RequestClarification(t1), "direct")
                ELSE IF tr.ok THEN Continue(tr.task, t1, "transition", "planning")
                ELSE EndTransitionError(t1)
  /\ signal' = None
  /\ api_result' = "none"
  /\ UNCHANGED <<exists, entry, retry, breaker, next_id, resume_index, probe, sched>>

\* _process_task: PLANNING, then PLANNING -> EXECUTING
Plan ==
  /\ pc = "planning"
  /\ \E raises \in BOOLEAN :
       IF raises THEN EndFailed(task) /\ UNCHANGED next_id
       ELSE LET new_plan == CreatePlan(task.outcome[1].domain, next_id)
                t1 == [task EXCEPT !.plan = new_plan]
                tr == TransitionState(t1, "EXECUTING")
            IN  /\ next_id' = next_id + Len(new_plan)
                /\ IF tr.ok THEN Continue(tr.task, t1, "transition", "execute")
                   ELSE EndTransitionError(t1)
  /\ signal' = None
  /\ api_result' = "none"
  /\ UNCHANGED <<exists, entry, retry, breaker, resume_index, probe, sched>>

\* _execute_plan, head of the while loop: skip a completed step, start
\* execute_with_retry on the current step, or leave the loop and enter
\* _validate_and_complete (EXECUTING -> VALIDATING)
Execute ==
  /\ pc = "execute"
  /\ LET idx == task.current_step_index
     IN  IF idx < Len(task.plan)
         THEN IF task.plan[idx + 1].status = "COMPLETED"
              THEN /\ task' = [task EXCEPT !.current_step_index = idx + 1]
                   /\ pc' = "execute"
                   /\ retry' = NoRetry
                   /\ via' = "none"
                   /\ failure' = NoFailure
                   /\ UNCHANGED saved
              ELSE /\ retry' = [index |-> idx,
                                action_type |-> task.plan[idx + 1].action_type,
                                max_retries |-> task.plan[idx + 1].max_retries,
                                attempt |-> 0, calls |-> 0, delays |-> 0,
                                waits |-> 0,
                                failures_before |->
                                  breaker.failures[task.plan[idx + 1].action_type],
                                outcome |-> "running"]
                   /\ pc' = "attempt"
                   /\ via' = "none"
                   /\ failure' = NoFailure
                   /\ UNCHANGED <<task, saved>>
         ELSE LET tr == TransitionState(task, "VALIDATING")
              IN  /\ IF tr.ok
                     THEN Continue(tr.task, saved, "transition", "validate")
                     ELSE EndTransitionError(task)
                  /\ retry' = NoRetry
  /\ signal' = None
  /\ api_result' = "none"
  /\ UNCHANGED <<exists, entry, breaker, next_id, resume_index, probe, sched>>

\* the failures a tool call is made to raise: none once the breaker counts
\* MaxFailures, none that asks for a replacement step once MaxSteps exist
Failures(b, service, attempt) ==
  IF b.failures[service] >= MaxFailures THEN {}
  ELSE {m \in ErrorMessages :
          SelectStrategy(m, attempt) = "ALTERNATIVE" => next_id <= MaxSteps}

\* ExecutorEngine.execute_step: the step after the tool call
ExecuteStep(step, out) ==
  CASE out.kind = "ok" ->
         [step EXCEPT !.status = "COMPLETED", !.result = <<"tool_result">>]
    [] out.kind = "interrupt" -> [step EXCEPT !.status = "IN_PROGRESS"]
    [] OTHER -> [step EXCEPT !.status = "FAILED"]

\* a retry loop without the except clause that re-raises an interruption: the
\* interruption is counted and retried like any other exception
EngineReactionRetryingInterruption(out, attempt, max_retries) ==
  IF out.kind = "ok" THEN "success"
  ELSE LET strategy == SelectStrategy(out.msg, attempt)
       IN  IF strategy = "HUMAN_ESCALATE" THEN "escalate"
           ELSE IF strategy = "ALTERNATIVE" THEN "needs_replan"
           ELSE IF attempt < max_retries THEN "retry"
           ELSE "exhausted"

\* a retry loop that goes round once more than range(max_retries + 1) does
EngineReactionOneMoreRetry(out, attempt, max_retries) ==
  IF out.kind = "ok" THEN "success"
  ELSE IF out.kind = "interrupt" THEN "reraise"
  ELSE LET strategy == SelectStrategy(out.msg, attempt)
       IN  IF strategy = "HUMAN_ESCALATE" THEN "escalate"
           ELSE IF strategy = "ALTERNATIVE" THEN "needs_replan"
           ELSE IF attempt <= max_retries THEN "retry"
           ELSE "exhausted"

\* RetryEngine.execute_with_retry: what the loop does with the outcome of
\* the tool call of attempt number `attempt`
EngineReaction(out, attempt, max_retries) ==
  IF out.kind = "ok" THEN "success"
  ELSE IF out.kind = "interrupt" THEN "reraise"
  ELSE LET strategy == SelectStrategy(out.msg, attempt)
       IN  IF strategy = "HUMAN_ESCALATE" THEN "escalate"
           ELSE IF strategy = "ALTERNATIVE" THEN "needs_replan"
           ELSE IF attempt < max_retries THEN "retry"
           ELSE "exhausted"

\* the HumanInterruptionRequired raised for HUMAN_ESCALATE
Escalation(step, attempt, msg) ==
  HumanInterruptionRequired(<<"Step failed after", attempt + 1, msg>>,
                            <<"step", step.id, "error", msg>>)

\* one iteration of the for loop of RetryEngine.execute_with_retry, with
\* ExecutorEngine.execute_step inside it, and what _execute_plan does with
\* the value returned or the exception raised
Attempt ==
  /\ pc = "attempt"
  /\ LET i     == task.current_step_index + 1
         svc   == task.plan[i].action_type
         chk   == IsOpen(breaker, svc)
         b1    == IF chk.open THEN Elapse(chk.breaker, recovery_timeout + 1)
                  ELSE chk.breaker
         step1 == [task.plan[i] EXCEPT !.retry_count = retry.attempt]
         r1    == [retry EXCEPT !.calls = @ + 1,
                                !.waits = IF chk.open THEN @ + 1 ELSE @]
     IN  \E out \in ToolOutcomes(svc, Failures(b1, svc, retry.attempt)) :
           LET reaction == EngineReaction(out, retry.attempt, step1.max_retries)
               step2 == ExecuteStep(step1, out)
               t1 == [task EXCEPT !.plan[i] = step2]
               esc == Escalation(step2, retry.attempt, out.msg)
           IN  /\ breaker' = CASE reaction = "success" -> RecordSuccess(b1, svc)
                               [] reaction = "reraise" -> b1
                               [] OTHER -> RecordFailure(b1, svc)
               /\ signal' = CASE out.kind = "interrupt" -> <<out.sig>>
                              [] reaction = "escalate" -> <<esc>>
                              [] OTHER -> None
               /\ CASE reaction = "success" ->
                         LET t2 == [t1 EXCEPT
                                      !.context.tool_updates = @ \cup {svc},
                                      !.history = Append(@, [step |-> i - 1,
                                                             action |-> svc,
                                                             result |-> "success"]),
                                      !.current_step_index = @ + 1]
                         IN  /\ retry' = [r1 EXCEPT !.outcome = "success"]
                             /\ Continue(t2, t2, "none", "execute")
                             /\ UNCHANGED next_id
                    [] reaction = "reraise" ->
                         /\ retry' = [r1 EXCEPT !.outcome = "interrupted"]
                         /\ EndInterrupted(t1, out.sig)
                         /\ UNCHANGED next_id
                    [] reaction = "escalate" ->
                         /\ retry' = [r1 EXCEPT !.outcome = "escalated"]
                         /\ EndInterrupted(t1, esc)
                         /\ UNCHANGED next_id
                    [] reaction = "needs_replan" ->
                         LET t2 == [t1 EXCEPT !.plan = Replan(t1.plan, i - 1, next_id)]
                         IN  /\ retry' = [r1 EXCEPT !.outcome = "needs_replan"]
                             /\ next_id' = next_id + 1
                             /\ Continue(t2, t2, "none", "execute")
                    [] reaction = "retry" ->
                         /\ retry' = [r1 EXCEPT !.attempt = @ + 1, !.delays = @ + 1]
                         /\ Continue(t1, saved, "none", "attempt")
                         /\ UNCHANGED next_id
                    [] OTHER ->
                         /\ retry' = [r1 EXCEPT !.outcome = "exhausted"]
                         /\ EndFailed(t1)
                         /\ UNCHANGED next_id
  /\ api_result' = "none"
  /\ UNCHANGED <<exists, entry, resume_index, probe, sched>>

\* CompletionValidator.validate_completion: raises or returns a verdict
AllValidationResults ==
  {[raises |-> TRUE,  completed |-> FALSE, needs_more_work |-> FALSE],
   [raises |-> FALSE, completed |-> TRUE,  needs_more_work |-> FALSE],
   [raises |-> FALSE, completed |-> FALSE, needs_more_work |-> TRUE],
   [raises |-> FALSE, completed |-> FALSE, needs_more_work |-> FALSE]}

\* the verdicts the validator is made to return: more work only while the
\* extension fits in MaxSteps
ValidationResults(t) ==
  {v \in AllValidationResults :
     (v.needs_more_work /\ t.context.replan_count < MaxReplans) =>
       next_id + Len(CreatePlan(t.outcome[1].domain, next_id)) - 1 <= MaxSteps}

\* a ceiling check that never finds the ceiling reached
ReplanLimitNeverReached(replan_count) == FALSE

\* _validate_and_complete: the check of the replan counter against its ceiling
ReplanLimitReached(replan_count) == replan_count >= MaxReplans

\* _validate_and_complete after the transition to VALIDATING
Validate ==
  /\ pc = "validate"
  /\ \E v \in ValidationResults(task) :
       LET verdict(note) == [completed |-> v.completed, note |-> note]
           done == TransitionState(task, "COMPLETED")
           fail == TransitionState(task, "FAILED")
           replan_count == task.context.replan_count
       IN  IF v.raises THEN EndFailed(task) /\ UNCHANGED next_id
           ELSE IF v.completed
           THEN /\ IF done.ok
                   THEN EndReturned(NotifyCompletion(done.task, verdict("")),
                                    "transition")
                   ELSE EndTransitionError(task)
                /\ UNCHANGED next_id
           ELSE IF ReplanLimitReached(replan_count)
           THEN /\ IF done.ok
                   THEN EndReturned(
                          NotifyCompletion(done.task,
                            verdict("Forced completion after max retries")),
                          "transition")
                   ELSE EndTransitionError(task)
                /\ UNCHANGED next_id
           ELSE IF v.needs_more_work
           THEN \E raises \in BOOLEAN :
                  LET t1 == [task EXCEPT !.context.replan_count = replan_count + 1]
                      new_steps == CreatePlan(task.outcome[1].domain, next_id)
                      t2 == [t1 EXCEPT !.plan = @ \o new_steps,
                                       !.status = "EXECUTING"]
                  IN  IF raises THEN EndFailed(t1) /\ UNCHANGED next_id
                      ELSE /\ next_id' = next_id + Len(new_steps)
                           /\ Continue(t2, t2, "direct", "execute")
           ELSE /\ IF fail.ok THEN EndReturnedNotified(fail.task, "transition")
                   ELSE EndTransitionError(task)
                /\ UNCHANGED next_id
  /\ signal' = None
  /\ api_result' = "none"
  /\ UNCHANGED <<exists, entry, retry, breaker, resume_index, probe, sched>>

\* a resume guard that also lets a FAILED task through
ResumeAcceptedAlsoFailed(t) == t.status \in {"INTERRUPTED", "FAILED"}

\* a resume guard that lets every task through
ResumeAcceptedAlways(t) == TRUE

\* resume_after_interruption: the guard on the loaded task
ResumeAccepted(t) == t.status = "INTERRUPTED"

\* a decline test that never sees a decline
ResumeDeclinedNever(t, user_response) == FALSE

\* resume_after_interruption: the user declined (payment or approval)
ResumeDeclined(t, user_response) ==
  /\ t.interrupt_reason \in {<<"payment_required">>, <<"approval_needed">>}
  /\ ~user_response.approved

\* a marking that records the result but leaves the step and the index alone
MarkCurrentStepNotAdvancing(t, res) ==
  IF t.current_step_index < Len(t.plan)
  THEN [t EXCEPT !.plan[t.current_step_index + 1].result = res]
  ELSE t

\* a marking that moves the index past the step after the current one too
MarkCurrentStepAdvancingTwice(t, res) ==
  IF t.current_step_index < Len(t.plan)
  THEN [t EXCEPT !.plan[t.current_step_index + 1].status = "COMPLETED",
                 !.plan[t.current_step_index + 1].result = res,
                 !.current_step_index = t.current_step_index + 2]
  ELSE t

\* a marking that moves the index past the current step and records the
\* result but leaves the status of the step as it was
MarkCurrentStepOnlyAdvancing(t, res) ==
  IF t.current_step_index < Len(t.plan)
  THEN [t EXCEPT !.plan[t.current_step_index + 1].result = res,
                 !.current_step_index = t.current_step_index + 1]
  ELSE t

\* resume_after_interruption: the current step, if there is one, is marked
\* COMPLETED with the given result and the index moves past it
MarkCurrentStepCompleted(t, res) ==
  IF t.current_step_index < Len(t.plan)
  THEN [t EXCEPT !.plan[t.current_step_index + 1].status = "COMPLETED",
                 !.plan[t.current_step_index + 1].result = res,
                 !.current_step_index = t.current_step_index + 1]
  ELSE t

\* resume_after_interruption, the accepted and approved case: the task with
\* the response worked into context, plan and current_step_index, and the
\* interruption state cleared
ResumeApply(t, user_response) ==
  LET t0  == [t EXCEPT !.context.user_response = <<user_response>>]
      idx == t.current_step_index
      t1  == CASE t.interrupt_reason = <<"payment_required">> ->
                    MarkCurrentStepCompleted(
                      [t0 EXCEPT
                         !.context.user_payment_method =
                            IF user_response.payment_method = None
                            THEN <<"default">>
                            ELSE user_response.payment_method,
                         !.context.payment_approved = TRUE],
                      <<"approved", user_response.payment_method>>)
               [] t.interrupt_reason = <<"approval_needed">> ->
                    MarkCurrentStepCompleted(
                      [t0 EXCEPT
                         !.context.approval_response = <<user_response>>,
                         !.context.approval_received = TRUE],
                      <<"approved">>)
               [] t.interrupt_reason = <<"clarification_needed">> ->
                    LET t2 == [t0 EXCEPT
                                 !.context.clarification_answer = user_response.answer,
                                 !.context.goal = Append(@, user_response.answer)]
                    IN  IF /\ t2.plan # << >>
                           /\ idx < Len(t2.plan)
                           /\ t2.plan[idx + 1].action_type = "request_user_help"
                        THEN MarkCurrentStepCompleted(
                               t2, <<"user_response", user_response.answer>>)
                        ELSE t2
               [] OTHER -> t0
  IN  [t1 EXCEPT !.interrupt_reason = None, !.interrupt_data = None]

\* a resume that always resets the task to PENDING
ResumeStatusAlwaysPending(t) == "PENDING"

\* resume_after_interruption: the status an accepted resume assigns
ResumeStatus(t) == IF t.plan # << >> THEN "EXECUTING" ELSE "PENDING"

\* a resume that always starts _process_task
ResumeEntryAlwaysProcess(t) == "process"

\* resume_after_interruption: the coroutine an accepted resume starts,
\* _resume_execution or _process_task
ResumeEntry(t) == IF t.plan # << >> THEN "resume" ELSE "process"

\* AgentOrchestrator.resume_after_interruption(task_id, user_response)
Resume(user_response) ==
  /\ IF ~exists
     THEN /\ api_result' = "Task not found"
          /\ via' = "none"
          /\ failure' = NoFailure
          /\ UNCHANGED <<task, saved, pc, entry, retry, resume_index>>
     ELSE IF ~ResumeAccepted(task)
     THEN /\ api_result' = "Task not interrupted"
          /\ via' = "none"
          /\ failure' = NoFailure
          /\ UNCHANGED <<task, saved, pc, entry, retry, resume_index>>
     ELSE IF ResumeDeclined(task, user_response)
     THEN LET t0 == [task EXCEPT !.context.user_response = <<user_response>>,
                                 !.status = "FAILED"]
              t1 == IF task.interrupt_reason = <<"payment_required">>
                    THEN [t0 EXCEPT !.context.failure_reason =
                                       <<"Payment declined by user">>]
                    ELSE t0
          IN  /\ task' = t1
              /\ saved' = t1
              /\ via' = "direct"
              /\ failure' = [raised |-> "none", notified |-> TRUE]
              /\ api_result' = IF task.interrupt_reason = <<"payment_required">>
                               THEN "Payment declined" ELSE "Approval denied"
              /\ UNCHANGED <<pc, entry, retry, resume_index>>
     ELSE LET t1 == ResumeApply(task, user_response)
              t2 == [t1 EXCEPT !.status = ResumeStatus(t1)]
          IN  /\ task' = t2
              /\ saved' = t2
              /\ via' = "direct"
              /\ failure' = NoFailure
              /\ api_result' = "resumed"
              /\ resume_index' = t2.current_step_index
              /\ retry' = NoRetry
              /\ entry' = ResumeEntry(t1)
              /\ pc' = IF ResumeEntry(t1) = "resume" THEN "execute" ELSE "process"
  /\ signal' = None
  /\ UNCHANGED <<exists, breaker, next_id, probe, sched>>

\* more than recovery_timeout passes with nothing else happening
TimePasses ==
  /\ \E s \in ActionTypes : breaker.since_failure[s] <= recovery_timeout
  /\ breaker' = Elapse(breaker, recovery_timeout + 1)
  /\ api_result' = "none"
  /\ via' = "none"
  /\ signal' = None
  /\ failure' = NoFailure
  /\ UNCHANGED <<task, exists, saved, pc, entry, retry, next_id, resume_index,
                 probe, sched>>

Next ==
  \/ \E goal \in Goals : CreateTask(goal)
  \/ ProcessTask
  \/ Interpret
  \/ Plan
  \/ Execute
  \/ Attempt
  \/ Validate
  \/ \E user_response \in Responses : Resume(user_response)
  \/ TimePasses

Spec == Init /\ [][Next]_vars

\* the steps of the coroutine of a run (_process_task or _resume_execution):
\* asyncio runs it on whenever the call it awaits has returned
RunStep ==
  \/ ProcessTask
  \/ Interpret
  \/ Plan
  \/ Execute
  \/ Attempt
  \/ Validate

\* the driver with every awaited call returning
SpecLive == Spec /\ WF_vars(RunStep)

(***************************************************************************)
(* _transition_state on its own: called on a task of any status with any   *)
(* target, the call recorded in probe.                                     *)
(***************************************************************************)
InitTransition ==
  /\ \E s \in TaskStatus : task = [TaskState(EmptyContext) EXCEPT !.status = s]
  /\ exists = TRUE
  /\ saved = TaskState(EmptyContext)
  /\ pc = "idle"
  /\ entry = "process"
  /\ retry = NoRetry
  /\ breaker = NewBreaker
  /\ next_id = 1
  /\ via = "none"
  /\ signal = None
  /\ api_result = "none"
  /\ resume_index = 0
  /\ probe = None
  /\ sched = NoSched
  /\ failure = NoFailure

\* one call of _transition_state(task, new_state)
TryTransition(new_state) ==
  LET tr == TransitionState(task, new_state)
  IN  /\ task' = tr.task
      /\ probe' = <<[from |-> task.status, to |-> new_state, ok |-> tr.ok]>>
      /\ via' = IF tr.ok THEN "transition" ELSE "none"
      /\ UNCHANGED <<exists, saved, pc, entry, retry, breaker, next_id, signal,
                     api_result, resume_index, sched, failure>>

NextTransition == \E new_state \in TaskStatus : TryTransition(new_state)

SpecTransition == InitTransition /\ [][NextTransition]_vars

(***************************************************************************)
(* executor.py: ExecutorEngine.execute_plan, the batch scheduler, called   *)
(* on its own with a plan and an empty context.  The orchestrator does not *)
(* call it, so the plans are not only the planner's: steps 1..n with up to *)
(* two dependencies, among them the id n + 1 that names no step, and at    *)
(* most one step already COMPLETED.  context is the set of step ids whose  *)
(* context_updates have been merged.                                       *)
(***************************************************************************)
MaxPlanLen == 3

\* the variables of the driver model
driver_vars ==
  <<task, exists, saved, pc, entry, retry, breaker, next_id, via, signal,
    api_result, resume_index, probe, failure>>

\* ExecutionStep.dependencies of a step in a plan of n steps: at most one
\* id, and for the last step of the plan at most two
SchedDependencies(n, last) ==
  IF last THEN {{a, b} : a, b \in 1..(n + 1)} \cup {{}}
  ELSE {{a} : a \in 1..(n + 1)} \cup {{}}

\* the plan of n steps with the given dependencies and the steps of `done`
\* already COMPLETED
SchedPlan(n, deps, last_deps, done) ==
  [i \in 1..n |->
     [ExecutionStep(i, "process_payment",
                    IF i < n THEN deps[i] ELSE last_deps, 3)
        EXCEPT !.status = IF i \in done THEN "COMPLETED" ELSE "PENDING"]]

\* the plans execute_plan is called with
SchedPlans ==
  UNION { { SchedPlan(n, deps, last_deps, done) :
              deps \in [1..(n - 1) -> SchedDependencies(n, FALSE)],
              last_deps \in SchedDependencies(n, TRUE),
              done \in {{}} \cup {{i} : i \in 1..n} } :
          n \in 1..MaxPlanLen }

\* what the handler of a step does in execute_step: return, raise a failure,
\* raise HumanInterruptionRequired
SchedOutcomes ==
  { Outcome("ok", {}, NoSignal),
    Outcome("raise", {"timeout"}, NoSignal),
    Outcome("interrupt", {},
            HumanInterruptionRequired(<<"payment_required">>,
                                      <<"amount", "payment_methods">>)) }

\* what execute_plan returns or raises
SchedReturn(kind, failed_step, step_index, error, pending_info, completed) ==
  [kind |-> kind, failed_step |-> failed_step, step_index |-> step_index,
   error |-> error, pending_info |-> pending_info, completed_steps |-> completed]

\* a selection of ready steps that does not look at the dependencies
ReadyStepsIgnoringDependencies(plan, completed_steps) ==
  SelectSeq([i \in 1..Len(plan) |-> i],
            LAMBDA i : /\ plan[i].id \notin completed_steps
                       /\ plan[i].status # "COMPLETED")

\* execute_plan: ready_steps, as indices into the plan, in plan order
ReadySteps(plan, completed_steps) ==
  SelectSeq([i \in 1..Len(plan) |-> i],
            LAMBDA i : /\ plan[i].id \notin completed_steps
                       /\ plan[i].status # "COMPLETED"
                       /\ plan[i].dependencies \subseteq completed_steps)

\* execute_plan: pending_info of the deadlock error
PendingInfo(plan, completed_steps) ==
  {<<plan[i].id, plan[i].dependencies>> :
     i \in {j \in 1..Len(plan) : plan[j].id \notin completed_steps}}

InitScheduler ==
  /\ task = TaskState(EmptyContext)
  /\ exists = FALSE
  /\ saved = TaskState(EmptyContext)
  /\ pc = "idle"
  /\ entry = "process"
  /\ retry = NoRetry
  /\ breaker = NewBreaker
  /\ next_id = 1
  /\ via = "none"
  /\ signal = None
  /\ api_result = "none"
  /\ resume_index = 0
  /\ probe = None
  /\ failure = NoFailure
  /\ \E plan \in SchedPlans : sched = [NoSched EXCEPT !.pc = "select", !.plan = plan,
                                               !.calls = [i \in 1..Len(plan) |-> 0]]

\* execute_plan, head of the while loop: return when every step is in
\* completed_steps, raise the deadlock error when no step is ready, else
\* start the batch of the ready steps
ExecutePlanSelect ==
  /\ sched.pc = "select"
  /\ LET ready == ReadySteps(sched.plan, sched.completed_steps)
         pending == PendingInfo(sched.plan, sched.completed_steps)
         success == SchedReturn("success", None, None, None, {},
                                Cardinality(sched.completed_steps))
     IN  IF Cardinality(sched.completed_steps) >= Len(sched.plan)
         THEN sched' = [sched EXCEPT !.pc = "returned", !.ret = <<success>>]
         ELSE IF ready = << >>
         THEN IF pending # {}
              THEN sched' = [sched EXCEPT
                               !.pc = "raised",
                               !.ret = <<SchedReturn("Deadlock", None, None, None,
                                                     pending, 0)>>]
              ELSE sched' = [sched EXCEPT !.pc = "returned", !.ret = <<success>>]
         ELSE sched' = [sched EXCEPT !.pc = "gather", !.ready_steps = ready,
                                     !.results = << >>]
  /\ UNCHANGED driver_vars

\* execute_plan, asyncio.gather: execute_step of the next step of the batch
ExecutePlanRun ==
  /\ sched.pc = "gather"
  /\ Len(sched.results) < Len(sched.ready_steps)
  /\ LET i == sched.ready_steps[Len(sched.results) + 1]
     IN  \E out \in SchedOutcomes :
           sched' = [sched EXCEPT !.plan[i] = ExecuteStep(sched.plan[i], out),
                                  !.calls[i] = @ + 1,
                                  !.results = Append(@, out)]
  /\ UNCHANGED driver_vars

\* a scan of the results that only finds the last exception of the batch
FailedPositionsLastOnly(results) ==
  {k \in 1..Len(results) :
     /\ results[k].kind # "ok"
     /\ \A j \in (k + 1)..Len(results) : results[j].kind = "ok"}

\* execute_plan: the positions of the batch whose result is an exception
FailedPositions(results) == {k \in 1..Len(results) : results[k].kind # "ok"}

\* execute_plan, the loop over the results of the batch, in batch order
ExecutePlanProcess ==
  /\ sched.pc = "gather"
  /\ Len(sched.results) = Len(sched.ready_steps)
  /\ LET failed == FailedPositions(sched.results)
         first == CHOOSE k \in failed : \A j \in failed : k <= j
         upto == IF failed = {} THEN Len(sched.results) ELSE first - 1
         merged == {sched.plan[sched.ready_steps[k]].id : k \in 1..upto}
         i == sched.ready_steps[first]
     IN  IF failed = {}
         THEN sched' = [sched EXCEPT !.completed_steps = @ \cup merged,
                                     !.context = @ \cup merged,
                                     !.pc = "select"]
         ELSE sched' = [sched EXCEPT
                          !.completed_steps = @ \cup merged,
                          !.context = @ \cup merged,
                          !.plan[i].status = "FAILED",
                          !.pc = "returned",
                          !.ret = <<SchedReturn("failure", <<sched.plan[i].id>>,
                                                <<i - 1>>,
                                                <<sched.results[first]>>, {}, 0)>>]
  /\ UNCHANGED driver_vars

NextScheduler ==
  \/ ExecutePlanSelect
  \/ ExecutePlanRun
  \/ ExecutePlanProcess

SpecScheduler == InitScheduler /\ [][NextScheduler]_vars

(***************************************************************************)
(* The retry engine shared by the tasks: the orchestrator is one global    *)
(* object with one RetryEngine and one CircuitBreaker, and the runs of     *)
(* several tasks call execute_with_retry on it concurrently.  A call       *)
(* yields at the sleep for an open breaker and at the tool call, so each   *)
(* iteration of its loop is three steps here.  The calls are in probe.     *)
(***************************************************************************)
EngineTasks == {"task_a", "task_b"}

\* the action type of the steps the tasks execute
EngineActionTypes == {"process_payment"}

\* the variables the engine model leaves alone
engine_rest ==
  <<task, exists, saved, pc, entry, retry, next_id, via, signal, api_result,
    resume_index, sched, failure>>

\* no call of execute_with_retry in progress for a task; has_failed: a call
\* of the task has recorded a failure, flipped: the is_open of this
\* iteration turned the circuit half-open
NoCall ==
  [pc |-> "idle", action_type |-> "", max_retries |-> 0, attempt |-> 0,
   calls |-> 0, waits |-> 0, flipped |-> FALSE, has_failed |-> FALSE,
   admitted_during_probe |-> FALSE, outcome |-> "none"]

InitEngine ==
  /\ task = TaskState(EmptyContext)
  /\ exists = FALSE
  /\ saved = TaskState(EmptyContext)
  /\ pc = "idle"
  /\ entry = "process"
  /\ retry = NoRetry
  /\ breaker = NewBreaker
  /\ next_id = 1
  /\ via = "none"
  /\ signal = None
  /\ api_result = "none"
  /\ resume_index = 0
  /\ probe = [k \in EngineTasks |-> NoCall]
  /\ sched = NoSched
  /\ failure = NoFailure

\* the run of task k calls execute_with_retry(step, ...)
EngineStart(k, action_type, max_retries) ==
  /\ probe[k].pc = "idle"
  /\ probe' = [probe EXCEPT ![k] =
                 [NoCall EXCEPT !.pc = "check",
                                !.action_type = action_type,
                                !.max_retries = max_retries,
                                !.has_failed = probe[k].has_failed,
                                !.outcome = "running"]]
  /\ UNCHANGED breaker
  /\ UNCHANGED engine_rest

\* a probe of the circuit is under way: a call other than k's was let
\* through by the is_open that turned the circuit half-open and its result
\* is not recorded yet
ProbeInFlight(k, service) ==
  \E j \in EngineTasks \ {k} :
    /\ probe[j].pc = "calling"
    /\ probe[j].flipped
    /\ probe[j].action_type = service

\* execute_with_retry, head of an iteration: the is_open check
EngineCheck(k) ==
  /\ probe[k].pc = "check"
  /\ LET svc == probe[k].action_type
         chk == IsOpen(breaker, svc)
     IN  /\ breaker' = chk.breaker
         /\ probe' = [probe EXCEPT
              ![k].pc = IF chk.open THEN "sleeping" ELSE "calling",
              ![k].waits = IF chk.open THEN @ + 1 ELSE @,
              ![k].flipped = breaker.state[svc] = "open" /\ ~chk.open,
              ![k].admitted_during_probe =
                 ~chk.open /\ ProbeInFlight(k, svc)]
  /\ UNCHANGED engine_rest

\* execute_with_retry: the sleep of recovery_timeout is over
EngineWake(k) ==
  /\ probe[k].pc = "sleeping"
  /\ breaker' = Elapse(breaker, recovery_timeout + 1)
  /\ probe' = [probe EXCEPT ![k].pc = "calling"]
  /\ UNCHANGED engine_rest

\* execute_with_retry: the tool call returns or raises `out`, the breaker
\* records it, and the loop returns, raises or goes round
EngineCallOutcome(k, out) ==
  /\ probe[k].pc = "calling"
  /\ LET svc == probe[k].action_type
         c   == [probe[k] EXCEPT !.calls = @ + 1, !.flipped = FALSE,
                                 !.admitted_during_probe = FALSE]
     IN    LET reaction == EngineReaction(out, c.attempt, c.max_retries)
           IN  /\ breaker' = CASE reaction = "success" -> RecordSuccess(breaker, svc)
                               [] reaction = "reraise" -> breaker
                               [] OTHER -> RecordFailure(breaker, svc)
               /\ probe' = [probe EXCEPT ![k] =
                    CASE reaction = "success" ->
                           [c EXCEPT !.pc = "idle", !.outcome = "success"]
                      [] reaction = "reraise" ->
                           [c EXCEPT !.pc = "idle", !.outcome = "interrupted"]
                      [] reaction = "escalate" ->
                           [c EXCEPT !.pc = "idle", !.outcome = "escalated",
                                     !.has_failed = TRUE]
                      [] reaction = "needs_replan" ->
                           [c EXCEPT !.pc = "idle", !.outcome = "needs_replan",
                                     !.has_failed = TRUE]
                      [] reaction = "retry" ->
                           [c EXCEPT !.pc = "check", !.attempt = @ + 1,
                                     !.has_failed = TRUE]
                      [] OTHER ->
                           [c EXCEPT !.pc = "idle", !.outcome = "exhausted",
                                     !.has_failed = TRUE]]
  /\ UNCHANGED engine_rest

\* execute_with_retry: the tool call of a step, with any outcome of its tool
EngineCall(k) ==
  /\ probe[k].pc = "calling"
  /\ \E out \in ToolOutcomes(probe[k].action_type,
                            Failures(breaker, probe[k].action_type,
                                     probe[k].attempt)) :
       EngineCallOutcome(k, out)

NextEngine ==
  \/ \E k \in EngineTasks, a \in EngineActionTypes, m \in {1, 3} :
       EngineStart(k, a, m)
  \/ \E k \in EngineTasks : EngineCheck(k)
  \/ \E k \in EngineTasks : EngineWake(k)
  \/ \E k \in EngineTasks : EngineCall(k)
  \/ TimePasses

SpecEngine == InitEngine /\ [][NextEngine]_vars

\* the tool call of a step whose tool raises an authentication failure every
\* time it is called
EngineCallAuth(k) ==
  /\ probe[k].pc = "calling"
  /\ breaker.failures[probe[k].action_type] < MaxFailures
  /\ EngineCallOutcome(k, Outcome("raise", {"unauthorized", "auth"}, NoSignal))

\* the calls of execute_with_retry of two tasks for such steps, for every
\* max_retries up to MaxAttempt
NextAuth ==
  \/ \E k \in EngineTasks, a \in EngineActionTypes, m \in 0..MaxAttempt :
       EngineStart(k, a, m)
  \/ \E k \in EngineTasks : EngineCheck(k)
  \/ \E k \in EngineTasks : EngineWake(k)
  \/ \E k \in EngineTasks : EngineCallAuth(k)
  \/ TimePasses

SpecAuth == InitEngine /\ [][NextAuth]_vars

(***************************************************************************)
(* state_manager.py and TaskState.to_dict: a task written to its JSON file *)
(* and read back from it (the memory cache left aside).  Here task is the  *)
(* TaskState object with all its fields, saved the content of the file,    *)
(* probe the object that load_state rebuilt from the file.                 *)
(***************************************************************************)
\* datetime values: a day and the microseconds within it
Datetimes == {[day |-> d, microsecond |-> m] : d \in {1, 2}, m \in {0, 500}}

\* datetime.isoformat(): the fraction is left out when it is zero
IsoFormat(dt) ==
  IF dt.microsecond = 0 THEN <<dt.day, "T", "00:00:00">>
  ELSE <<dt.day, "T", "00:00:00", ".", dt.microsecond>>

\* str(datetime), what json.dump(default=str) writes for a datetime
DatetimeStr(dt) ==
  IF dt.microsecond = 0 THEN <<dt.day, " ", "00:00:00">>
  ELSE <<dt.day, " ", "00:00:00", ".", dt.microsecond>>

\* a parser that keeps whole seconds only
FromIsoFormatWholeSeconds(text) == [day |-> text[1], microsecond |-> 0]

\* datetime.fromisoformat, and pydantic's parsing of a datetime field: both
\* separators, with or without fraction
FromIsoFormat(text) ==
  [day |-> text[1], microsecond |-> IF Len(text) = 3 THEN 0 ELSE text[5]]

\* the values of the TaskStatus and StepStatus enums
TaskStatusValue ==
  [s \in TaskStatus |->
     CASE s = "PENDING" -> "pending"         [] s = "ANALYZING" -> "analyzing"
       [] s = "PLANNING" -> "planning"       [] s = "EXECUTING" -> "executing"
       [] s = "WAITING" -> "waiting"         [] s = "RETRYING" -> "retrying"
       [] s = "INTERRUPTED" -> "interrupted" [] s = "VALIDATING" -> "validating"
       [] s = "COMPLETED" -> "completed"     [] s = "FAILED" -> "failed"]

StepStatusValue ==
  [s \in StepStatus |->
     CASE s = "PENDING" -> "pending"     [] s = "IN_PROGRESS" -> "in_progress"
       [] s = "COMPLETED" -> "completed" [] s = "FAILED" -> "failed"
       [] s = "SKIPPED" -> "skipped"]

\* TaskStatus(value), StepStatus(value): the member with that value
TaskStatusOf(value) == CHOOSE s \in TaskStatus : TaskStatusValue[s] = value
StepStatusOf(value) == CHOOSE s \in StepStatus : StepStatusValue[s] = value

\* step.dict() as json.dump writes it: the enum by its value, the
\* datetimes by str
StepDict(step) ==
  [id |-> step.id, action_type |-> step.action_type,
   dependencies |-> step.dependencies,
   status |-> StepStatusValue[step.status], result |-> step.result,
   retry_count |-> step.retry_count, max_retries |-> step.max_retries,
   started_at |->
     IF step.started_at = None THEN None ELSE <<DatetimeStr(step.started_at[1])>>,
   completed_at |->
     IF step.completed_at = None THEN None ELSE <<DatetimeStr(step.completed_at[1])>>]

\* ExecutionStep(**step_data)
StepFromDict(d) ==
  [id |-> d.id, action_type |-> d.action_type, dependencies |-> d.dependencies,
   status |-> StepStatusOf(d.status), result |-> d.result,
   retry_count |-> d.retry_count, max_retries |-> d.max_retries,
   started_at |->
     IF d.started_at = None THEN None ELSE <<FromIsoFormat(d.started_at[1])>>,
   completed_at |->
     IF d.completed_at = None THEN None ELSE <<FromIsoFormat(d.completed_at[1])>>]

\* outcome.dict() as json.dump writes it, and OutcomeDefinition(**outcome_data)
OutcomeDict(o) ==
  [domain |-> o.domain, needs_clarification |-> o.needs_clarification,
   deadline |->
     IF o.deadline = None THEN None ELSE <<DatetimeStr(o.deadline[1])>>]

OutcomeFromDict(d) ==
  [domain |-> d.domain, needs_clarification |-> d.needs_clarification,
   deadline |->
     IF d.deadline = None THEN None ELSE <<FromIsoFormat(d.deadline[1])>>]

\* TaskState.to_dict, as written by json.dump and read by json.load
ToDict(t) ==
  [task_id |-> t.task_id, user_id |-> t.user_id,
   status |-> TaskStatusValue[t.status],
   outcome |-> IF t.outcome # None THEN <<OutcomeDict(t.outcome[1])>> ELSE None,
   plan |-> [i \in 1..Len(t.plan) |-> StepDict(t.plan[i])],
   current_step_index |-> t.current_step_index,
   context |-> t.context, history |-> t.history,
   created_at |-> IsoFormat(t.created_at),
   updated_at |-> IsoFormat(t.updated_at),
   completed_at |->
     IF t.completed_at = None THEN None ELSE <<IsoFormat(t.completed_at[1])>>,
   interrupt_reason |-> t.interrupt_reason,
   interrupt_data |-> t.interrupt_data]

\* StateManager._dict_to_task_state; now stands for datetime.utcnow()
DictToTaskState(data, now) ==
  [task_id |-> data.task_id, user_id |-> data.user_id,
   status |-> TaskStatusOf(data.status),
   outcome |-> IF data.outcome # None
               THEN <<OutcomeFromDict(data.outcome[1])>> ELSE None,
   plan |-> [i \in 1..Len(data.plan) |-> StepFromDict(data.plan[i])],
   current_step_index |-> data.current_step_index,
   context |-> data.context, history |-> data.history,
   created_at |-> IF data.created_at # None
                  THEN FromIsoFormat(data.created_at) ELSE now,
   updated_at |-> IF data.updated_at # None
                  THEN FromIsoFormat(data.updated_at) ELSE now,
   completed_at |->
     IF data.completed_at = None THEN None ELSE <<FromIsoFormat(data.completed_at[1])>>,
   interrupt_reason |-> data.interrupt_reason,
   interrupt_data |-> data.interrupt_data]

\* the steps and the tasks that are saved: every status, with and without
\* the optional fields
StoreSteps ==
  {[id |-> 1, action_type |-> "process_payment", dependencies |-> {},
    status |-> st, result |-> r, retry_count |-> 0, max_retries |-> 3,
    started_at |-> IF st = "PENDING" THEN None ELSE <<b>>,
    completed_at |-> IF st = "COMPLETED" THEN <<e>> ELSE None] :
     st \in StepStatus, r \in {None, <<"tool_result">>},
     b \in {[day |-> 1, microsecond |-> 500]},
     e \in {[day |-> 2, microsecond |-> 0]}}

StoreTasks ==
  {[task_id |-> "task_a", user_id |-> "user",
    status |-> s,
    outcome |-> IF s = "PENDING" THEN None
                ELSE <<[domain |-> "travel", needs_clarification |-> FALSE,
                        deadline |-> d]>>,
    plan |-> p,
    current_step_index |-> IF p # << >> /\ p[1].status = "COMPLETED" THEN 1 ELSE 0,
    context |-> [EmptyContext EXCEPT !.goal = <<"book tokyo">>,
                                     !.payment_approved = (s = "EXECUTING")],
    history |-> IF p # << >> /\ p[1].status = "COMPLETED"
                THEN <<[step |-> 0, action |-> "process_payment",
                        result |-> "success"]>> ELSE << >>,
    created_at |-> c, updated_at |-> c,
    completed_at |-> IF s = "COMPLETED" THEN <<[day |-> 2, microsecond |-> 0]>>
                     ELSE None,
    interrupt_reason |-> IF s = "INTERRUPTED" THEN <<"payment_required">> ELSE None,
    interrupt_data |-> IF s = "INTERRUPTED" THEN <<"amount", "payment_methods">>
                       ELSE None] :
     s \in TaskStatus, p \in {<< >>} \cup {<<st>> : st \in StoreSteps},
     c \in {[day |-> 1, microsecond |-> 0], [day |-> 1, microsecond |-> 500]},
     d \in {None, <<[day |-> 2, microsecond |-> 500]>>}}

\* the variables the store model leaves alone
store_rest ==
  <<exists, pc, entry, retry, breaker, next_id, via, signal, api_result,
    resume_index, sched, failure>>

InitStore ==
  /\ task \in StoreTasks
  /\ exists = TRUE
  /\ saved = None
  /\ pc = "idle"
  /\ entry = "process"
  /\ retry = NoRetry
  /\ breaker = NewBreaker
  /\ next_id = 1
  /\ via = "none"
  /\ signal = None
  /\ api_result = "none"
  /\ resume_index = 0
  /\ probe = None
  /\ sched = NoSched
  /\ failure = NoFailure

\* StateManager.save_state: updated_at is set, the file is written
SaveState(now) ==
  /\ task' = [task EXCEPT !.updated_at = now]
  /\ saved' = <<ToDict(task')>>
  /\ probe' = None
  /\ UNCHANGED store_rest

\* StateManager.load_state when the task is not in the memory cache
LoadState(now) ==
  /\ saved # None
  /\ probe' = <<DictToTaskState(saved[1], now)>>
  /\ UNCHANGED <<task, saved>>
  /\ UNCHANGED store_rest

NextStore ==
  \/ \E now \in Datetimes : SaveState(now)
  \/ \E now \in Datetimes : LoadState(now)

SpecStore == InitStore /\ [][NextStore]_vars

(***************************************************************************)
(* retry_engine.py: _select_strategy on the text of a failure message.     *)
(* A text is a sequence of characters; the message, the attempt and the    *)
(* strategy returned are in probe.                                         *)
(***************************************************************************)
MaxPhrases == 2

\* str.lower on the letters A-Z
UpperToLower ==
  ("A" :> "a") @@ ("B" :> "b") @@ ("C" :> "c") @@ ("D" :> "d") @@ ("E" :> "e") @@
  ("F" :> "f") @@ ("G" :> "g") @@ ("H" :> "h") @@ ("I" :> "i") @@ ("J" :> "j") @@
  ("K" :> "k") @@ ("L" :> "l") @@ ("M" :> "m") @@ ("N" :> "n") @@ ("O" :> "o") @@
  ("P" :> "p") @@ ("Q" :> "q") @@ ("R" :> "r") @@ ("S" :> "s") @@ ("T" :> "t") @@
  ("U" :> "u") @@ ("V" :> "v") @@ ("W" :> "w") @@ ("X" :> "x") @@ ("Y" :> "y") @@
  ("Z" :> "z")

\* str.lower()
Lower(text) ==
  [i \in 1..Len(text) |->
     IF text[i] \in DOMAIN UpperToLower THEN UpperToLower[text[i]] ELSE text[i]]

\* x in text
IsSubstring(x, text) ==
  \E i \in 0..(Len(text) - Len(x)) : SubSeq(text, i + 1, i + Len(x)) = x

\* the keywords of the six rows, spelled out
Spelling ==
  ("timeout" :> <<"t", "i", "m", "e", "o", "u", "t">>) @@
  ("connection" :> <<"c", "o", "n", "n", "e", "c", "t", "i", "o", "n">>) @@
  ("network" :> <<"n", "e", "t", "w", "o", "r", "k">>) @@
  ("503" :> <<"5", "0", "3">>) @@
  ("502" :> <<"5", "0", "2">>) @@
  ("504" :> <<"5", "0", "4">>) @@
  ("rate limit" :> <<"r", "a", "t", "e", " ", "l", "i", "m", "i", "t">>) @@
  ("429" :> <<"4", "2", "9">>) @@
  ("too many requests" :> <<"t", "o", "o", " ", "m", "a", "n", "y", " ", "r", "e", "q", "u", "e", "s", "t", "s">>) @@
  ("auth" :> <<"a", "u", "t", "h">>) @@
  ("unauthorized" :> <<"u", "n", "a", "u", "t", "h", "o", "r", "i", "z", "e", "d">>) @@
  ("401" :> <<"4", "0", "1">>) @@
  ("403" :> <<"4", "0", "3">>) @@
  ("forbidden" :> <<"f", "o", "r", "b", "i", "d", "d", "e", "n">>) @@
  ("not found" :> <<"n", "o", "t", " ", "f", "o", "u", "n", "d">>) @@
  ("404" :> <<"4", "0", "4">>) @@
  ("unavailable" :> <<"u", "n", "a", "v", "a", "i", "l", "a", "b", "l", "e">>) @@
  ("no longer available" :> <<"n", "o", " ", "l", "o", "n", "g", "e", "r", " ", "a", "v", "a", "i", "l", "a", "b", "l", "e">>) @@
  ("insufficient funds" :> <<"i", "n", "s", "u", "f", "f", "i", "c", "i", "e", "n", "t", " ", "f", "u", "n", "d", "s">>) @@
  ("invalid" :> <<"i", "n", "v", "a", "l", "i", "d">>) @@
  ("rejected" :> <<"r", "e", "j", "e", "c", "t", "e", "d">>) @@
  ("declined" :> <<"d", "e", "c", "l", "i", "n", "e", "d">>) @@
  ("temporarily" :> <<"t", "e", "m", "p", "o", "r", "a", "r", "i", "l", "y">>) @@
  ("maintenance" :> <<"m", "a", "i", "n", "t", "e", "n", "a", "n", "c", "e">>) @@
  ("busy" :> <<"b", "u", "s", "y">>)

\* error_str = str(error).lower(); the keywords x with x in error_str
Keywords(text) ==
  {w \in DOMAIN Spelling : IsSubstring(Spelling[w], Lower(text))}

\* _select_strategy(error, attempt, step)
SelectStrategyOfText(text, attempt) == SelectStrategy(Keywords(text), attempt)

\* pieces of failure messages
Phrases ==
  <<<<"C", "o", "n", "n", "e", "c", "t", "i", "o", "n", " ", "T", "I", "M", "E", "O", "U", "T">>,
    <<"H", "T", "T", "P", " ", "4", "2", "9">>,
    <<"U", "n", "a", "u", "t", "h", "o", "r", "i", "z", "e", "d">>,
    <<"I", "t", "e", "m", " ", "N", "o", "t", " ", "F", "o", "u", "n", "d">>,
    <<"S", "e", "r", "v", "i", "c", "e", " ", "U", "N", "A", "V", "A", "I", "L", "A", "B", "L", "E">>,
    <<"T", "e", "m", "p", "o", "r", "a", "r", "i", "l", "y">>,
    <<"n", "o", " ", "l", "o", "n", "g", "e", "r", " ", "a", "v", "a", "i", "l", "a", "b", "l", "e">>,
    <<"c", "a", "r", "d", " ", "D", "e", "c", "l", "i", "n", "e", "d">>,
    <<"u", "n", "d", "e", "r", " ", "M", "a", "i", "n", "t", "e", "n", "a", "n", "c", "e">>,
    <<"o", "o", "p", "s">>>>

RECURSIVE JoinPhrases(_)
JoinPhrases(ps) ==
  IF Len(ps) = 1 THEN Phrases[ps[1]]
  ELSE Phrases[ps[1]] \o <<" ">> \o JoinPhrases(Tail(ps))

\* the failure messages: up to MaxPhrases pieces separated by a blank
Messages ==
  UNION { {JoinPhrases(ps) : ps \in [1..n -> 1..Len(Phrases)]} : n \in 1..MaxPhrases }

strategy_rest ==
  <<task, exists, saved, pc, entry, retry, breaker, next_id, via, signal,
    api_result, resume_index, sched, failure>>

InitStrategy ==
  /\ task = TaskState(EmptyContext)
  /\ exists = FALSE
  /\ saved = TaskState(EmptyContext)
  /\ pc = "idle"
  /\ entry = "process"
  /\ retry = NoRetry
  /\ breaker = NewBreaker
  /\ next_id = 1
  /\ via = "none"
  /\ signal = None
  /\ api_result = "none"
  /\ resume_index = 0
  /\ sched = NoSched
  /\ failure = NoFailure
  /\ \E m \in Messages, a \in 0..MaxAttempt :
       probe = [message |-> m, attempt |-> a, strategy |-> "none"]

\* the except clause of execute_with_retry calls _select_strategy
SelectStrategyCall ==
  /\ probe.strategy = "none"
  /\ probe' = [probe EXCEPT
                 !.strategy = SelectStrategyOfText(probe.message, probe.attempt)]
  /\ UNCHANGED strategy_rest

NextStrategy == SelectStrategyCall

SpecStrategy == InitStrategy /\ [][NextStrategy]_vars

(***************************************************************************)
(* Properties.                                                             *)
(***************************************************************************)

\* what resume_after_interruption returns
ResumeResults ==
  {"Task not found", "Task not interrupted", "Payment declined",
   "Approval denied", "resumed"}

\* C1 as stated: every change of a task's status is a pair of the transition
\* table, or bypasses the table with target FAILED or INTERRUPTED; nothing
\* that bypasses the table has another target.
C1_OnlyFailedOrInterruptedBypass ==
  [][task'.status # task.status =>
       /\ \/ task'.status \in Allowed(task.status)
          \/ via' = "direct" /\ task'.status \in {"FAILED", "INTERRUPTED"}
       /\ via' = "direct" => task'.status \in {"FAILED", "INTERRUPTED"}]_vars

\* C1, amended: every change of a task's status goes through
\* _transition_state with a pair of the table, or is a direct assignment of
\* FAILED or INTERRUPTED, or a direct assignment of EXECUTING that is a pair
\* of the table (VALIDATING or INTERRUPTED to EXECUTING), or the reset
\* INTERRUPTED -> PENDING by an accepted resume of a task without a plan.
C1_StatusChanges ==
  [][task'.status # task.status =>
       \/ via' = "transition" /\ task'.status \in Allowed(task.status)
       \/ via' = "direct" /\ task'.status \in {"FAILED", "INTERRUPTED"}
       \/ /\ via' = "direct"
          /\ task'.status = "EXECUTING"
          /\ task.status \in {"VALIDATING", "INTERRUPTED"}
          /\ task'.status \in Allowed(task.status)
       \/ /\ via' = "direct"
          /\ task.status = "INTERRUPTED"
          /\ task'.status = "PENDING"
          /\ api_result' = "resumed"
          /\ task'.plan = << >>]_vars

\* C1: a resume has just reset an interrupted task without a plan to PENDING
C1_ResetToPending ==
  /\ via = "direct"
  /\ api_result = "resumed"
  /\ task.status = "PENDING"
  /\ task.plan = << >>
  /\ task.context.clarification_answer # None

\* C2: for every (from, to) pair that is not in the transition table, also
\* with from COMPLETED or FAILED, _transition_state raises
\* StateTransitionError and leaves the status as it was.
C2_InvalidTransitionRejected ==
  probe # None =>
    LET call == probe[1]
    IN  call.to \notin Allowed(call.from) =>
          ~call.ok /\ task.status = call.from

\* C2: a transition out of COMPLETED was attempted and rejected
C2_RejectedFromCompleted ==
  /\ probe # None
  /\ probe[1].from = "COMPLETED"
  /\ probe[1].to = "EXECUTING"
  /\ ~probe[1].ok
  /\ task.status = "COMPLETED"

\* C3: COMPLETED and FAILED are absorbing: once the status of a task is
\* COMPLETED or FAILED, no step of a run, no resume and no failure handler
\* changes it.
C3_TerminalAbsorbing ==
  [][(exists /\ task.status \in {"COMPLETED", "FAILED"}) =>
       task'.status = task.status]_vars

\* C3: a resume was tried on a FAILED task
C3_ResumeOnFailed ==
  /\ exists
  /\ task.status = "FAILED"
  /\ api_result = "Task not interrupted"

\* C4: whenever a run has stopped or a resume has returned, interrupt_reason
\* and interrupt_data are present iff the status is INTERRUPTED.
C4_InterruptFieldsIffInterrupted ==
  (exists /\ (pc = "idle" \/ api_result \in ResumeResults)) =>
    /\ task.interrupt_reason # None <=> task.status = "INTERRUPTED"
    /\ task.interrupt_data # None <=> task.status = "INTERRUPTED"

\* C5: a HumanInterruptionRequired raised by the tool in the first call of a
\* step with max_retries = 3 ends execute_with_retry after that one call,
\* with no retry delay and the breaker's failure count of the action type
\* as it was before.
C5_InterruptionNotRetried ==
  (/\ signal # None
   /\ Len(signal[1].reason) = 1
   /\ retry.calls = 1
   /\ retry.max_retries = 3) =>
    /\ pc = "idle"
    /\ retry.outcome = "interrupted"
    /\ retry.attempt = 0
    /\ retry.delays = 0
    /\ breaker.failures[retry.action_type] = retry.failures_before

\* C5: the tool of a step with max_retries = 3 has raised in its first call
C5_InterruptedFirstAttempt ==
  /\ signal # None
  /\ signal[1].reason = <<"payment_required">>
  /\ retry.calls = 1
  /\ retry.max_retries = 3
  /\ retry.outcome = "interrupted"

\* C6: a HumanInterruptionRequired, raised by a tool or by the retry engine
\* for HUMAN_ESCALATE, ends the run with the task INTERRUPTED, carrying the
\* reason and the data of the signal, and saved; the step index, the history
\* and the plan are as they were when the tool was called, so no later step
\* ran, nothing was replanned and nothing retried.
C6_InterruptionEndsRun ==
  [][signal' # None =>
       /\ pc' = "idle"
       /\ task'.status = "INTERRUPTED"
       /\ task'.interrupt_reason = signal'[1].reason
       /\ task'.interrupt_data = signal'[1].data
       /\ saved' = task'
       /\ task'.current_step_index = task.current_step_index
       /\ task'.history = task.history
       /\ Len(task'.plan) = Len(task.plan)
       /\ next_id' = next_id
       /\ retry'.calls = retry.calls + 1
       /\ retry'.attempt = retry.attempt
       /\ retry'.delays = retry.delays]_vars

\* C6: the retry engine has escalated a failure in a resumed run
C6_EscalationInterrupted ==
  /\ signal # None
  /\ retry.outcome = "escalated"
  /\ entry = "resume"
  /\ task.status = "INTERRUPTED"
  /\ task.interrupt_data = signal[1].data

\* C7: a resume of a task that does not exist or is not INTERRUPTED reports
\* an error and changes nothing: the task (status, context, plan,
\* current_step_index, interrupt fields) and its saved record are as before
\* and no run is started.
C7_RejectedResumeChangesNothing ==
  [][(api_result' \in ResumeResults /\ (~exists \/ task.status # "INTERRUPTED")) =>
       /\ api_result' = IF exists THEN "Task not interrupted" ELSE "Task not found"
       /\ UNCHANGED <<task, exists, saved, pc, entry, retry, breaker, next_id>>]_vars

\* C7: a resume was rejected while the task was executing
C7_RejectedWhileExecuting ==
  /\ api_result = "Task not interrupted"
  /\ task.status = "EXECUTING"
  /\ pc = "attempt"

\* C8: for a task interrupted with payment_required, a resume with
\* approved = true puts the payment method and the approval flag into the
\* context, marks the step at current_step_index COMPLETED with the approval
\* as its result and without calling its tool, moves the index on by one and
\* sets EXECUTING; the resumed run calls a tool only for a step that is not
\* COMPLETED, goes on to validation when the steps are done, and a completed
\* verdict makes the task COMPLETED.
C8_PaymentApprovedResume ==
  [][/\ (api_result' = "resumed" /\ task.interrupt_reason = <<"payment_required">>) =>
          LET idx == task.current_step_index
              method == task'.context.user_response[1].payment_method
          IN  /\ task'.context.user_response[1].approved
              /\ task'.context.payment_approved
              /\ task'.context.user_payment_method =
                   IF method = None THEN <<"default">> ELSE method
              /\ idx < Len(task.plan)
              /\ task'.plan[idx + 1].status = "COMPLETED"
              /\ task'.plan[idx + 1].result = <<"approved", method>>
              /\ task'.current_step_index = idx + 1
              /\ task'.status = "EXECUTING"
              /\ pc' = "execute" /\ entry' = "resume"
              /\ retry' = NoRetry /\ breaker' = breaker
              /\ task'.history = task.history
     /\ retry'.calls > retry.calls =>
          /\ task.plan[task.current_step_index + 1].status # "COMPLETED"
          /\ entry = "resume" => task.current_step_index >= resume_index
     /\ (pc = "execute" /\ pc' # "execute"
         /\ task.current_step_index >= Len(task.plan)) =>
          pc' = "validate" /\ task'.status = "VALIDATING"
     /\ (pc = "validate" /\ task'.context.validation_result # None
         /\ task'.context.validation_result[1].completed) =>
          pc' = "idle" /\ task'.status = "COMPLETED"]_vars

\* C8: a run resumed after an approved payment has reached COMPLETED on a
\* completed verdict, the approved step still carrying the approval
C8_CompletedAfterPayment ==
  /\ task.status = "COMPLETED"
  /\ entry = "resume"
  /\ task.context.payment_approved
  /\ task.context.validation_result # None
  /\ task.context.validation_result[1].completed
  /\ Len(task.plan) = 2
  /\ task.plan[1].status = "COMPLETED"
  /\ task.plan[1].result = <<"approved", <<"card_ending_4242">>>>
  /\ task.plan[2].result = <<"tool_result">>

\* C9: a resume with approved = false of a task interrupted with
\* approval_needed or payment_required sets FAILED, returns the error
\* "Approval denied" resp. "Payment declined", executes no step and starts
\* no run.
C9_DeclinedResumeFails ==
  [][(/\ api_result' \in ResumeResults
      /\ exists
      /\ task.status = "INTERRUPTED"
      /\ task.interrupt_reason \in {<<"approval_needed">>, <<"payment_required">>}
      /\ task'.context.user_response # None
      /\ ~task'.context.user_response[1].approved) =>
       /\ task'.status = "FAILED"
       /\ api_result' = IF task.interrupt_reason = <<"approval_needed">>
                        THEN "Approval denied" ELSE "Payment declined"
       /\ saved' = task'
       /\ pc = "idle" /\ pc' = "idle"
       /\ task'.plan = task.plan
       /\ task'.current_step_index = task.current_step_index
       /\ task'.history = task.history
       /\ UNCHANGED <<entry, retry, breaker, next_id>>]_vars

\* C9: an approval was denied
C9_ApprovalDenied ==
  /\ api_result = "Approval denied"
  /\ task.status = "FAILED"
  /\ pc = "idle"
  /\ task.plan[2].action_type = "wait_for_approval"
  /\ task.plan[2].status = "IN_PROGRESS"

\* C10: an accepted resume of a task with a plan sets EXECUTING and starts
\* _resume_execution at current_step_index; that run never interprets or
\* plans and calls no tool for a step before the index of the resume. An
\* accepted resume of a task without a plan sets PENDING and starts
\* _process_task, whose first step is PENDING -> ANALYZING.
C10_ResumeContinuesOrRestarts ==
  [][/\ api_result' = "resumed" =>
          IF task.plan # << >>
          THEN /\ task'.status = "EXECUTING"
               /\ pc' = "execute" /\ entry' = "resume"
               /\ resume_index' = task'.current_step_index
               /\ task'.current_step_index >= task.current_step_index
               /\ task'.outcome = task.outcome
               /\ Len(task'.plan) = Len(task.plan)
          ELSE /\ task'.status = "PENDING"
               /\ pc' = "process" /\ entry' = "process"
               /\ task'.plan = << >>
     /\ entry' = "resume" => pc' \notin {"process", "interpret", "planning"}
     /\ (entry = "resume" /\ entry' = "resume" /\ api_result' # "resumed") =>
          /\ task'.outcome = task.outcome
          /\ task'.current_step_index >= task.current_step_index
          /\ retry'.calls > retry.calls => retry.index >= resume_index
     /\ (pc = "process" /\ pc' # "process") =>
          pc' = "interpret" /\ task'.status = "ANALYZING"]_vars

\* C10: a task interrupted for a clarification before it had a plan was
\* resumed and is being analysed again
C10_RestartedFromAnalyzing ==
  /\ task.status = "ANALYZING"
  /\ pc = "interpret"
  /\ entry = "process"
  /\ task.plan = << >>
  /\ task.context.clarification_answer # None

\* C11: the validate/replan loop is bounded: the replan counter never exceeds
\* 3 and grows by one exactly when a validation below the ceiling extends
\* the plan, so the plan is extended at most 3 times; the validation that
\* finds the counter at 3 does not extend the plan and, unless the validator
\* itself raised, ends the run COMPLETED, with the forced-completion note
\* when the verdict was not completed.
C11_ReplanLoopBounded ==
  [][/\ task'.context.replan_count <= MaxReplans
     /\ task'.context.replan_count # task.context.replan_count =>
          /\ pc = "validate"
          /\ task.context.replan_count < MaxReplans
          /\ task'.context.replan_count = task.context.replan_count + 1
     /\ (task.plan # << >> /\ Len(task'.plan) > Len(task.plan)) =>
          /\ pc = "validate"
          /\ task'.context.replan_count = task.context.replan_count + 1
     /\ (pc = "validate" /\ pc' # "validate"
         /\ task.context.replan_count = MaxReplans) =>
          /\ pc' = "idle"
          /\ task'.plan = task.plan
          /\ task'.context.replan_count = MaxReplans
          /\ \/ /\ task'.status = "FAILED"
                /\ task'.context.validation_result = None
             \/ /\ task'.status = "COMPLETED"
                /\ task'.context.validation_result # None
                /\ LET v == task'.context.validation_result[1]
                   IN  v.note = IF v.completed THEN ""
                                ELSE "Forced completion after max retries"]_vars

\* C11: after three extensions of the plan a verdict that is not completed
\* has forced the task to COMPLETED
C11_ForcedCompletion ==
  /\ task.status = "COMPLETED"
  /\ task.context.replan_count = MaxReplans
  /\ Len(task.plan) = 4
  /\ task.context.validation_result # None
  /\ ~task.context.validation_result[1].completed
  /\ task.context.validation_result[1].note = "Forced completion after max retries"

\* the steps of the plan of execute_plan that are COMPLETED, by id
SchedCompletedIds == {sched.plan[j].id : j \in {k \in 1..Len(sched.plan) :
                                                  sched.plan[k].status = "COMPLETED"}}

\* C12: execute_plan calls execute_step (which marks the step IN_PROGRESS,
\* then COMPLETED or FAILED) only for a step all of whose declared
\* dependencies are COMPLETED, and no step becomes IN_PROGRESS or COMPLETED
\* in any other way.
C12_SchedulerRespectsDependencies ==
  [][sched.pc # "none" =>
       /\ Len(sched'.results) > Len(sched.results) =>
            sched.plan[sched.ready_steps[Len(sched'.results)]].dependencies
              \subseteq SchedCompletedIds
       /\ \A i \in 1..Len(sched.plan) :
            (/\ sched'.plan[i].status # sched.plan[i].status
             /\ sched'.plan[i].status \in {"IN_PROGRESS", "COMPLETED"}) =>
              /\ Len(sched'.results) > Len(sched.results)
              /\ i = sched.ready_steps[Len(sched'.results)]
              /\ sched.plan[i].dependencies \subseteq SchedCompletedIds]_vars

\* C12: a step with two dependencies was completed after both of them
C12_JoinCompleted ==
  /\ Len(sched.plan) = 3
  /\ sched.plan[3].dependencies = {1, 2}
  /\ sched.plan[2].dependencies = {1}
  /\ \A i \in 1..3 : sched.plan[i].status = "COMPLETED"
  /\ sched.completed_steps = {1, 2, 3}

\* the steps of the task's plan that are COMPLETED, by id
CompletedIds == {task.plan[j].id : j \in {k \in 1..Len(task.plan) :
                                            task.plan[k].status = "COMPLETED"}}

\* C13: while the orchestrator executes a plan, the tool of a step is called
\* (the step is started) only when every id in the step's dependencies is
\* the id of a COMPLETED step, and a step becomes COMPLETED only then.
C13_OrchestratorRespectsDependencies ==
  [][/\ retry'.calls > retry.calls =>
          task.plan[task.current_step_index + 1].dependencies \subseteq CompletedIds
     /\ \A i \in 1..Len(task.plan) :
          (/\ Len(task'.plan) >= i
           /\ task'.plan[i].id = task.plan[i].id
           /\ task'.plan[i].status = "COMPLETED"
           /\ task.plan[i].status # "COMPLETED") =>
            task.plan[i].dependencies \subseteq CompletedIds]_vars

\* the ids a set of ids depends on, directly or through k further steps
RECURSIVE DependencyClosure(_, _, _)
DependencyClosure(plan, ids, k) ==
  IF k = 0 THEN ids
  ELSE DependencyClosure(
         plan,
         ids \cup UNION {plan[i].dependencies :
                           i \in {j \in 1..Len(plan) : plan[j].id \in ids}},
         k - 1)

\* the plan has a dependency cycle
HasCycle(plan) ==
  \E i \in 1..Len(plan) :
    plan[i].id \in DependencyClosure(plan, plan[i].dependencies, Len(plan))

\* a step of the plan names a dependency that is the id of no step
HasDanglingDependency(plan) ==
  \E i \in 1..Len(plan) :
    \E d \in plan[i].dependencies : \A j \in 1..Len(plan) : plan[j].id # d

\* C14: for a plan with a dependency cycle or a dangling dependency, a call
\* of execute_plan ends with the Deadlock error, which lists every step
\* that is not COMPLETED together with those of its dependencies that are
\* not COMPLETED; it never returns success.
C14_DefectivePlanDeadlocks ==
  (/\ sched.pc \in {"returned", "raised"}
   /\ HasCycle(sched.plan) \/ HasDanglingDependency(sched.plan)) =>
    /\ sched.pc = "raised"
    /\ sched.ret[1].kind = "Deadlock"
    /\ sched.ret[1].pending_info =
         {<<sched.plan[i].id, sched.plan[i].dependencies \ SchedCompletedIds>> :
            i \in {j \in 1..Len(sched.plan) : sched.plan[j].status # "COMPLETED"}}

\* C15: when a step of a batch fails, execute_plan goes through the results
\* in plan order: the updates of the successful steps before the first
\* failing step are merged into the context, those of the successful steps
\* after it are not, and the call returns the failure report with the first
\* failing step in plan order, its index and its error.
C15_BatchFailureInPlanOrder ==
  [][(sched.pc = "gather" /\ sched'.pc # "gather"
      /\ \E k \in 1..Len(sched.results) : sched.results[k].kind # "ok") =>
       LET batch == sched.ready_steps
           first == CHOOSE k \in 1..Len(batch) :
                      /\ sched.results[k].kind # "ok"
                      /\ \A j \in 1..(k - 1) : sched.results[j].kind = "ok"
       IN  /\ \A k, l \in 1..Len(batch) : k < l => batch[k] < batch[l]
           /\ sched'.context =
                sched.context \cup {sched.plan[batch[k]].id : k \in 1..(first - 1)}
           /\ \A k \in (first + 1)..Len(batch) :
                sched.plan[batch[k]].id \notin sched'.context
           /\ sched'.pc = "returned"
           /\ sched'.ret[1].kind = "failure"
           /\ sched'.ret[1].failed_step = <<sched.plan[batch[first]].id>>
           /\ sched'.ret[1].step_index = <<batch[first] - 1>>
           /\ sched'.ret[1].error = <<sched.results[first]>>]_vars

\* C15: in a batch of three the second step failed, the first and the third
\* succeeded: only the first one's updates are in the context
C15_MiddleStepFailed ==
  /\ sched.pc = "returned"
  /\ Len(sched.ready_steps) = 3
  /\ sched.results[1].kind = "ok"
  /\ sched.results[2].kind = "raise"
  /\ sched.results[3].kind = "ok"
  /\ sched.context = {1}
  /\ sched.ret[1].failed_step = <<2>>
  /\ sched.plan[3].status = "COMPLETED"

\* C16: execute_with_retry calls the tool at most max_retries + 1 times per
\* call, and returns the exhausted report only after exactly max_retries + 1
\* tool calls that all failed with a failure it retries (each one recorded by
\* the breaker); a wait for an open breaker is neither an attempt nor a
\* recorded failure: the attempt number follows the tool calls alone, and
\* in every iteration of the loop the breaker's count moves by the outcome
\* of the one tool call, whether the iteration waited or not.
C16_RetryBudget ==
  [][/\ retry'.calls <= retry'.max_retries + 1
     /\ retry'.calls = retry'.attempt +
          (IF retry'.outcome \in {"none", "running"} THEN 0 ELSE 1)
     /\ retry'.outcome = "exhausted" =>
          /\ retry'.calls = retry'.max_retries + 1
          /\ retry'.delays = retry'.max_retries
          /\ breaker'.failures[retry'.action_type] =
               retry'.failures_before + retry'.max_retries + 1
     /\ (pc = "attempt" /\ retry' # retry) =>
          LET svc == retry.action_type
              f   == breaker.failures[svc]
          IN  /\ retry'.calls = retry.calls + 1
              /\ breaker'.failures[svc] =
                   CASE retry'.outcome = "success" -> IF f > 0 THEN f - 1 ELSE 0
                     [] retry'.outcome = "interrupted" -> f
                     [] OTHER -> f + 1]_vars

\* C16: a call ended exhausted although it waited for the open breaker
C16_ExhaustedAfterWait ==
  /\ retry.outcome = "exhausted"
  /\ retry.waits > 0
  /\ retry.max_retries >= 1
  /\ retry.calls = retry.max_retries + 1
  /\ task.status = "FAILED"

\* C17: for an action type the breaker has never seen the count starts at 0
\* and every recorded failure adds one, and the state becomes open exactly
\* in the step that records the failure bringing the count to
\* failure_threshold (5): a service that never opened counts fewer than 5,
\* and a state turns open only by a recorded failure that makes the count 5
\* or more.  While the state is open and recovery_timeout has not elapsed
\* since the last failure, is_open answers true, so the next iteration of
\* execute_with_retry for that action type sleeps for the recovery window
\* before it calls the tool; otherwise it does not sleep.
C17_BreakerOpensAtThreshold ==
  [][/\ \A s \in ActionTypes :
          LET recorded == breaker'.failures[s] = breaker.failures[s] + 1
          IN  /\ breaker'.state[s] = "absent" =>
                   breaker'.failures[s] < failure_threshold
              /\ (recorded /\ breaker.state[s] = "absent") =>
                   /\ breaker'.since_failure[s] = 0
                   /\ breaker'.state[s] =
                        IF breaker'.failures[s] = failure_threshold
                        THEN "open" ELSE "absent"
              /\ (recorded /\ breaker'.failures[s] >= failure_threshold) =>
                   breaker'.state[s] = "open"
              /\ (breaker'.state[s] = "open" /\ breaker.state[s] # "open") =>
                   recorded /\ breaker'.failures[s] >= failure_threshold
     /\ (pc = "attempt" /\ retry' # retry) =>
          LET svc == retry.action_type
              blocked == /\ breaker.state[svc] = "open"
                         /\ breaker.since_failure[svc] <= recovery_timeout
          IN  /\ IsOpen(breaker, svc).open = blocked
              /\ retry'.waits = retry.waits + (IF blocked THEN 1 ELSE 0)
              /\ retry'.calls = retry.calls + 1]_vars

\* C17: the fifth failure in a row of an action type opened its circuit
\* during a call of execute_with_retry, and the next iteration of that call
\* waited before it called the tool again
C17_OpenedThenBlocked ==
  /\ pc = "attempt"
  /\ retry.failures_before = failure_threshold - 1
  /\ retry.calls = 2
  /\ retry.waits = 1
  /\ breaker.failures[retry.action_type] = failure_threshold + 1

\* C18: after the circuit of an action type has opened, the next call for
\* it waits for the recovery window and is then let through as a probe, and
\* one success of that probe closes the circuit (its state becomes closed).
C18_ProbeSuccessCloses ==
  [][(/\ pc = "attempt"
      /\ retry'.waits = retry.waits + 1
      /\ retry'.outcome = "success") =>
       breaker'.state[retry.action_type] = "closed"]_vars

\* C19: the task's current_step_index is always between 0 and the length of
\* its plan, whatever steps were executed or skipped, whatever replans,
\* extensions of the plan after validation and resume calls took place.
C19_StepIndexWithinPlan ==
  /\ task.current_step_index >= 0
  /\ task.current_step_index <= Len(task.plan)
  /\ saved.current_step_index >= 0
  /\ saved.current_step_index <= Len(saved.plan)

\* C19: a resume marked the last step of a plan completed and left the index
\* at the end of the plan, after a step had been replaced by a replan and
\* the plan had been extended after a validation
C19_ResumedAtEndOfPlan ==
  /\ exists
  /\ api_result = "resumed"
  /\ resume_index = Len(task.plan)
  /\ Len(task.plan) >= 3
  /\ task.current_step_index = Len(task.plan)
  /\ task.plan[Len(task.plan)].status = "COMPLETED"
  /\ task.context.replan_count >= 1
  /\ \E i \in 1..Len(task.plan) : task.plan[i].action_type = "request_user_help"

C21_InterruptedStaysSuspended ==
  [][task.status = "INTERRUPTED" =>
       /\ pc = "idle"
       /\ (\/ task'.status # task.status
           \/ task'.plan # task.plan
           \/ task'.current_step_index # task.current_step_index
           \/ retry'.calls # retry.calls
           \/ pc' # "idle") =>
            api_result' \in {"resumed", "Payment declined", "Approval denied"}]_vars

\* C21: a task interrupted by an escalated failure is still INTERRUPTED after
\* more than the recovery window has passed since that failure
C21_StillInterruptedAfterTimePassed ==
  /\ task.status = "INTERRUPTED"
  /\ pc = "idle"
  /\ retry.outcome = "escalated"
  /\ breaker.since_failure[retry.action_type] > recovery_timeout
  /\ task.plan[task.current_step_index + 1].status = "FAILED"

\* C22: when the outcome returned by the interpreter has needs_clarification
\* set, the run ends there: the task is INTERRUPTED with reason
\* clarification_needed and the question as interrupt data, it is saved, the
\* planner is not called and no step is executed (the plan stays empty).
C22_ClarificationEndsRun ==
  [][(/\ pc = "interpret"
      /\ pc' # "interpret"
      /\ failure'.raised = "none"
      /\ task'.outcome # None
      /\ task'.outcome[1].needs_clarification) =>
       /\ pc' = "idle"
       /\ task'.status = "INTERRUPTED"
       /\ task'.interrupt_reason = <<"clarification_needed">>
       /\ task'.interrupt_data = <<"question">>
       /\ saved' = task'
       /\ task'.plan = << >>
       /\ next_id' = next_id
       /\ retry' = retry
       /\ signal' = None]_vars

\* C22: a run ended on a request for clarification
C22_ClarificationRequested ==
  /\ pc = "idle"
  /\ task.status = "INTERRUPTED"
  /\ task.interrupt_reason = <<"clarification_needed">>
  /\ task.outcome # None
  /\ task.outcome[1].needs_clarification
  /\ task.plan = << >>
  /\ saved = task
  /\ next_id = 1

\* C23: the tasks are processed independently of each other: the failures
\* recorded while one task is processed never delay a step of another task,
\* so a call of a task that has itself recorded no failure never has to wait
\* for the breaker.
C23_TasksIndependent ==
  [][\A k \in EngineTasks :
       probe'[k].waits > probe[k].waits => probe[k].has_failed]_vars

\* the characters of a text from its first to its last non-blank character,
\* found by position
Trimmed(s) ==
  LET solid == {i \in 1..Len(s) : s[i] # " "}
  IN  IF solid = {} THEN << >>
      ELSE SubSeq(s, CHOOSE i \in solid : \A j \in solid : i <= j,
                     CHOOSE i \in solid : \A j \in solid : j <= i)

\* C24: create_task with a goal that is empty or shorter than 10 characters
\* once trimmed fails with an error, stores no task and starts no run of the
\* driver; with any other goal it stores one new task with status PENDING and
\* the trimmed goal in its context and starts one run of the driver for it.
C24_CreateTaskValidatesGoal ==
  [][(probe' # None /\ probe' # probe
      /\ api_result' \in {"ValueError", "task_id"}) =>
       LET goal == probe'[1].goal
       IN  IF Len(Trimmed(goal)) < MinGoalLength
           THEN /\ api_result' = "ValueError"
                /\ UNCHANGED <<task, exists, saved, pc, entry>>
           ELSE /\ api_result' = "task_id"
                /\ ~exists /\ exists'
                /\ task'.status = "PENDING"
                /\ task'.context.goal = <<Trimmed(goal)>>
                /\ task'.plan = << >>
                /\ saved' = task'
                /\ pc = "idle" /\ pc' = "process" /\ entry' = "process"]_vars

\* C24: a goal of exactly ten characters between blanks was accepted
C24_TaskCreated ==
  /\ exists
  /\ api_result = "task_id"
  /\ pc = "process"
  /\ task.status = "PENDING"
  /\ probe[1].goal # Trimmed(probe[1].goal)
  /\ Len(Trimmed(probe[1].goal)) = MinGoalLength
  /\ task.context.goal = <<Trimmed(probe[1].goal)>>

\* C25: a task that was saved and is then loaded from its persisted record
\* is reproduced in every field: the status and the step statuses, the
\* outcome, the steps of the plan in order, current_step_index, context,
\* history, the interrupt reason and data, and the timestamps.
C25_SaveLoadRoundTrip ==
  probe # None =>
    /\ probe[1] = task
    /\ probe[1].status = task.status
    /\ Len(probe[1].plan) = Len(task.plan)
    /\ \A i \in 1..Len(task.plan) : probe[1].plan[i] = task.plan[i]
    /\ probe[1].created_at = task.created_at
    /\ probe[1].updated_at = task.updated_at
    /\ probe[1].completed_at = task.completed_at

\* C25: an interrupted task with a step in progress, a deadline and
\* timestamps with and without a fraction of a second was saved and loaded
C25_InterruptedTaskLoaded ==
  /\ probe # None
  /\ saved # None
  /\ saved[1].status = "interrupted"
  /\ probe[1].status = "INTERRUPTED"
  /\ probe[1].interrupt_reason = <<"payment_required">>
  /\ Len(probe[1].plan) = 1
  /\ probe[1].plan[1].status = "IN_PROGRESS"
  /\ probe[1].plan[1].started_at # None
  /\ probe[1].outcome[1].deadline # None
  /\ probe[1].created_at.microsecond = 0
  /\ probe[1].updated_at.microsecond = 500

\* C26: a HumanInterruptionRequired raised by a step of a batch is not turned
\* into a failure: execute_plan does not return a failure report whose error
\* is the interruption, and the step that raised it is not marked FAILED.
C26_InterruptionNotConverted ==
  /\ sched.ret # None /\ sched.ret[1].kind = "failure"
       => sched.ret[1].error[1].kind # "interrupt"
  /\ sched.pc # "gather" =>
       \A k \in 1..Len(sched.results) :
         sched.results[k].kind = "interrupt"
           => sched.plan[sched.ready_steps[k]].status # "FAILED"

\* C27: the scheduler runs each step of a batch through the retry engine: a
\* step that the batch reports as failed with a retryable failure has had its
\* handler called max_retries + 1 times.
C27_BatchStepsRetried ==
  /\ sched.pc = "returned"
  /\ sched.ret[1].kind = "failure"
  /\ sched.ret[1].error[1].kind = "raise"
  /\ SelectStrategy(sched.ret[1].error[1].msg, 0) \in {"EXPONENTIAL", "IMMEDIATE"}
  => LET i == sched.ret[1].step_index[1] + 1
     IN  sched.calls[i] = sched.plan[i].max_retries + 1

\* C28: the half-open circuit admits one probe: while the call that is_open
\* let through when it turned the circuit half-open has not recorded its
\* result, no other call for the same action type is let through to the tool
\* (stated for two calls that are both at their first attempt).
C28_OneProbeWhenHalfOpen ==
  \A k \in EngineTasks :
    probe[k].pc = "calling" /\ probe[k].attempt = 0
      => ~(/\ probe[k].admitted_during_probe
           /\ \E j \in EngineTasks \ {k} :
                /\ probe[j].pc = "calling" /\ probe[j].flipped
                /\ probe[j].attempt = 0
                /\ probe[j].action_type = probe[k].action_type)

C31_AuthEscalatesAtThirdFailure ==
  \A k \in EngineTasks :
    LET c == probe[k]
    IN  /\ c.outcome \in {"none", "running", "escalated", "exhausted"}
        /\ c.calls <= 3
        /\ c.outcome = "running" =>
             /\ c.calls = c.attempt
             /\ c.attempt <= 2 /\ c.attempt <= c.max_retries
             /\ \A a \in 0..(c.attempt - 1) :
                  SelectStrategy({"unauthorized", "auth"}, a) = "IMMEDIATE"
        /\ c.outcome = "escalated" => c.calls = 3 /\ c.max_retries >= 2
        /\ c.outcome = "exhausted" =>
             c.calls = c.max_retries + 1 /\ c.max_retries < 2

\* C31: one call with max_retries 3 ended in an interruption after three
\* calls of the tool, another with max_retries 1 ended exhausted after two
C31_EscalatedAndExhausted ==
  /\ probe["task_a"].outcome = "escalated"
  /\ probe["task_a"].max_retries = 3
  /\ probe["task_a"].calls = 3
  /\ probe["task_b"].outcome = "exhausted"
  /\ probe["task_b"].max_retries = 1
  /\ probe["task_b"].calls = 2

\* C32: when execute_with_retry returns needs_replan for the step at
\* current_step_index, the plan is replaced by the planner's successor plan
\* and saved, current_step_index stays, and execution continues at that
\* index.  The successor plan has the same length, the steps before the
\* failed one unchanged, a new pending step with a new id in the place of
\* the failed one, and after it the old steps with every dependency on the
\* failed step's id re-pointed to the new step and nothing else changed.
C32_ReplanKeepsIndexAndRewires ==
  [][(/\ pc = "attempt"
      /\ retry.outcome # "needs_replan"
      /\ retry'.outcome = "needs_replan") =>
       LET i == task.current_step_index + 1
           old == task.plan[i].id
           new == task'.plan[i].id
       IN  /\ task'.current_step_index = task.current_step_index
           /\ pc' = "execute"
           /\ task'.status = "EXECUTING"
           /\ saved' = task'
           /\ Len(task'.plan) = Len(task.plan)
           /\ \A j \in 1..(i - 1) : task'.plan[j] = task.plan[j]
           /\ new # old
           /\ \A j \in 1..Len(task.plan) : task.plan[j].id # new
           /\ task'.plan[i].status = "PENDING"
           /\ task'.plan[i].action_type = "request_user_help"
           /\ \A j \in (i + 1)..Len(task.plan) :
                /\ old \notin task'.plan[j].dependencies
                /\ task'.plan[j].dependencies =
                     IF old \in task.plan[j].dependencies
                     THEN (task.plan[j].dependencies \ {old}) \cup {new}
                     ELSE task.plan[j].dependencies
                /\ [task'.plan[j] EXCEPT !.dependencies = {}] =
                     [task.plan[j] EXCEPT !.dependencies = {}]]_vars

\* C32: the first step of a two-step plan was replaced after a not-found
\* failure, the second step now depends on the replacement, and the run is
\* about to execute index 0 again
C32_ReplannedFirstStep ==
  /\ pc = "execute"
  /\ retry.outcome = "needs_replan"
  /\ task.current_step_index = 0
  /\ Len(task.plan) = 2
  /\ task.plan[1].action_type = "request_user_help"
  /\ task.plan[1].status = "PENDING"
  /\ task.plan[2].action_type = "wait_for_approval"
  /\ task.plan[2].dependencies = {task.plan[1].id}

\* C33: when the validator answers completed = false without needs_more_work
\* and the replan counter is below 3, _validate_and_complete moves the task
\* from VALIDATING to FAILED through the transition table, reports
\* "validation failed and cannot replan" and returns: the plan, the step
\* index and the replan counter stay as they were, no step is created and
\* the run executes nothing more.
C33_CannotReplanFails ==
  [][(/\ pc = "validate"
      /\ failure' = [raised |-> "none", notified |-> TRUE]) =>
       /\ task.status = "VALIDATING"
       /\ task.context.replan_count < MaxReplans
       /\ task' = [task EXCEPT !.status = "FAILED"]
       /\ via' = "transition"
       /\ pc' = "idle"
       /\ next_id' = next_id
       /\ Len(task'.plan) = Len(task.plan)
       /\ task'.context.replan_count = task.context.replan_count
       /\ task'.context.final_result = None]_vars

\* C33: after one extension of the plan the validator answered that the
\* goal is not reached and gave no more work: the task is FAILED, the
\* failure was reported and the run is over
C33_FailedAfterOneExtension ==
  /\ pc = "idle"
  /\ task.status = "FAILED"
  /\ via = "transition"
  /\ failure = [raised |-> "none", notified |-> TRUE]
  /\ task.context.replan_count = 1
  /\ task.current_step_index = Len(task.plan)
  /\ Len(task.plan) >= 2

\* C34: when a run has brought the task to COMPLETED, the record last written
\* to the state store has status COMPLETED and holds the result summary.
C34_CompletedIsSaved ==
  (pc = "idle" /\ exists /\ task.status = "COMPLETED") =>
    /\ saved.status = "COMPLETED"
    /\ saved.context.final_result # None
    /\ saved.context.final_result = task.context.final_result

\* C35: an accepted resume of a task interrupted for a reason other than
\* payment_required, approval_needed and clarification_needed merges the
\* response into the context: every key of the response is then a key of
\* the context, with the value the response gave it.
C35_OtherReasonMergesResponse ==
  [][(/\ exists
      /\ task.status = "INTERRUPTED"
      /\ task.interrupt_reason \notin {<<"payment_required">>,
                                        <<"approval_needed">>,
                                        <<"clarification_needed">>}
      /\ api_result' = "resumed") =>
       LET user_response == task'.context.user_response[1]
       IN  \A key \in DOMAIN user_response :
             /\ key \in DOMAIN task'.context
             /\ task'.context[key] = user_response[key]]_vars

\* C36: every run terminates: once a run has started (by create_task or by
\* an accepted resume) and every awaited call returns, the run ends with the
\* task INTERRUPTED, COMPLETED or FAILED.  The replans for needs_replan are
\* bounded within a run: the step executed after such a replan is the
\* request_user_help step, and its tool call ends the run in an interruption.
C36_RunTerminates ==
  /\ (pc # "idle") ~>
       (pc = "idle" /\ task.status \in {"INTERRUPTED", "COMPLETED", "FAILED"})
  /\ [][/\ (pc = "execute" /\ retry.outcome = "needs_replan" /\ retry' # retry) =>
            /\ pc' = "attempt"
            /\ retry'.action_type = "request_user_help"
        /\ (/\ pc = "attempt" /\ retry.action_type = "request_user_help"
            /\ retry' # retry) =>
            /\ pc' = "idle"
            /\ task'.status = "INTERRUPTED"
            /\ retry'.outcome = "interrupted"]_vars

\* C36: a run that was started by a resume, replaced a step after a
\* needs_replan and extended the plan after a validation has ended
C36_LongRunEnded ==
  /\ pc = "idle"
  /\ entry = "resume"
  /\ task.status = "INTERRUPTED"
  /\ task.context.replan_count >= 1
  /\ retry.action_type = "request_user_help"
  /\ retry.outcome = "interrupted"

\* C37: for a plan without a dependency cycle in which every dependency is
\* the id of a step of the plan, execute_plan does not end with the Deadlock
\* error, whatever the statuses of the steps at the start: steps that are
\* COMPLETED already are skipped and the others are executed.
C37_SoundPlanNeverDeadlocks ==
  (/\ sched.pc = "raised"
   /\ sched.ret[1].kind = "Deadlock") =>
    HasCycle(sched.plan) \/ HasDanglingDependency(sched.plan)

\* C38: when execute_plan returns, with success or with a failure report,
\* the context updates of every step that the call executed and that is
\* COMPLETED have been merged into the shared context.
C38_CompletedStepsMerged ==
  sched.pc = "returned" =>
    \A i \in 1..Len(sched.plan) :
      (sched.calls[i] > 0 /\ sched.plan[i].status = "COMPLETED")
        => sched.plan[i].id \in sched.context

\* C39: a failure recorded while the circuit of an action type is half-open
\* opens it again: after a failed probe the state is open, not half-open and
\* not closed, whatever the failure count is.
C39_FailedProbeReopens ==
  [][\A s \in EngineActionTypes :
       (/\ breaker.state[s] = "half-open"
        /\ breaker'.failures[s] = breaker.failures[s] + 1) =>
         breaker'.state[s] = "open"]_vars

\* C40: whenever the status of the task is VALIDATING or COMPLETED,
\* current_step_index equals the length of the plan and every step of the
\* plan is COMPLETED, also after replans, extensions of the plan, resumes
\* that marked a step COMPLETED and a forced completion.
C40_ValidatedPlanIsComplete ==
  (exists /\ task.status \in {"VALIDATING", "COMPLETED"}) =>
    /\ task.current_step_index = Len(task.plan)
    /\ \A i \in 1..Len(task.plan) : task.plan[i].status = "COMPLETED"

\* C40: a task was completed by force after three extensions of its plan, in
\* a run started by a resume that marked the interrupted step COMPLETED
C40_ForcedCompletionAfterResume ==
  /\ task.status = "COMPLETED"
  /\ entry = "resume"
  /\ task.context.replan_count = MaxReplans
  /\ task.context.validation_result # None
  /\ ~task.context.validation_result[1].completed
  /\ Len(task.plan) >= 4
  /\ \E i \in 1..Len(task.plan) :
       /\ task.plan[i].action_type = "request_payment_approval"
       /\ task.plan[i].result = <<"approved", <<"card_ending_4242">>>>

====
